---- MODULE Spec2Model ----
(***************************************************************************)
(* State-machine model of the incremental Swift REPL kernel                *)
(* (src/swift_jit_repl/SwiftJITREPL.cpp, SwiftJITREPL.h):                   *)
(*   SwiftJITREPL::Impl        the facade (initialize, evaluate, reset ...) *)
(*   SwiftInterpreter          ParseAndExecute, Execute, Undo               *)
(*   SwiftIncrementalParser    Parse, CleanUpPTU                            *)
(*   SwiftIncrementalExecutor  addModule, removeModule                      *)
(* The Swift front end, the code generator and the ORC JIT are external:    *)
(* what they answer (sema verdict, lowering, link errors, addresses) is     *)
(* drawn nondeterministically or computed from an abstract snippet.         *)
(***************************************************************************)
EXTENDS Integers, Sequences, FiniteSets, TLC

(***************************************************************************)
(* Bounds of the model.                                                    *)
(***************************************************************************)
\* cap on modules->size() of the first interpreter (base module included)
MaxModules == 4
\* the same cap for the interpreters constructed after it
MaxModulesAfterReset == 2
\* cap on the number of interpreters constructed in one process
MaxEpoch == 2
\* cap on modules->size() for the client of the lower-level interface
MaxFragments == 3
\* cap on stats.total_expressions
MaxStat == 3
\* longest expression list handed to evaluateMultiple
MaxBatch == 2
\* number of distinct list-node addresses the allocator hands out
MaxAddr == 2
\* largest reading of the steady clock
MaxClock == 1

(***************************************************************************)
(* Snippets: the source texts the callers submit, and what the external    *)
(* front end sees in them.                                                  *)
(***************************************************************************)
Snippets == {"let a = 5", "let b = 10", "a + 1", "let x = ;"}

\* top-level names a snippet declares
Defs(s) ==
    CASE s = "let a = 5"  -> {"a"}
      [] s = "let b = 10" -> {"b"}
      [] OTHER            -> {}

\* names a snippet refers to
Refs(s) ==
    CASE s = "a + 1" -> {"a"}
      [] OTHER       -> {}

\* does the text parse
WellFormed(s) == s # "let x = ;"

\* text as the caller wrote it (SwiftJITREPL::Parse hands it on untouched)
RawText(code) == [src |-> code, pub |-> FALSE]

\* transformForValuePrinting: every `let `/`var ` gets the `public` modifier
\* and a newline is appended; the text is no longer the caller's text
transformForValuePrinting(code) == [src |-> code, pub |-> TRUE]

NoText == [src |-> "", pub |-> FALSE]

(***************************************************************************)
(* Texts character by character: std::string as a sequence of characters,  *)
(* positions counted from 0 as in the code.                                *)
(***************************************************************************)
\* longest text drawn from the alphabet
MaxText == 5
Alphabet == {"l", "e", "t", " "}

\* std::string::npos, the largest size_t; the model keeps it above every
\* length a text can have, which is all the code depends on
Npos == 1073741823

KwLet == <<"l", "e", "t", " ">>
KwVar == <<"v", "a", "r", " ">>
KwPublic == <<"p", "u", "b", "l", "i", "c">>
InsPublic == <<"p", "u", "b", "l", "i", "c", " ">>
Newline == <<"\n">>
SetValueNoAlloc == <<"_", "_", "s", "w", "i", "f", "t", "_", "I", "n", "t", "e", "r", "p", "r", "e", "t", "e", "r", "_", "S", "e", "t", "V", "a", "l", "u", "e", "N", "o", "A", "l", "l", "o", "c">>

LetX42 == <<"l", "e", "t", " ", "x", " ", "=", " ", "4", "2">>
XPlus1 == <<"x", " ", "+", " ", "1">>
OnePlus2 == <<"1", " ", "+", " ", "2">>
VarY == <<"v", "a", "r", " ", "y", " ", "=", " ", "x">>
IfLet == <<"i", "f", " ", "l", "e", "t", " ", "y", " ", "=", " ", "x">>
PublicLet == <<"p", "u", "b", "l", "i", "c", " ", "l", "e", "t", " ", "z", " ", "=", " ", "1">>
SampleTexts == {LetX42, XPlus1, OnePlus2, VarY, IfLet, PublicLet}

Texts == SampleTexts \cup UNION {[1..n -> Alphabet] : n \in 0..MaxText}

\* does pat occur in s at position i
MatchAt(s, pat, i) ==
    /\ i + Len(pat) <= Len(s)
    /\ \A k \in 1..Len(pat) : s[i + k] = pat[k]

\* std::string::find(pat, pos)
RECURSIVE find(_, _, _)
find(s, pat, pos) ==
    IF pos + Len(pat) > Len(s) THEN Npos
    ELSE IF MatchAt(s, pat, pos) THEN pos
    ELSE find(s, pat, pos + 1)

\* pos - 6 on size_t: wraps round below zero
Minus6(pos) == IF pos >= 6 THEN pos - 6 ELSE Npos - (5 - pos)

\* std::string::substr(pos, n); throws std::out_of_range when pos > size()
substr(s, pos, n) ==
    IF pos > Len(s) THEN [threw |-> TRUE, text |-> << >>]
    ELSE [threw |-> FALSE,
          text |-> SubSeq(s, pos + 1, IF pos + n < Len(s) THEN pos + n ELSE Len(s))]

\* std::string::insert(pos, ins)
insert(s, pos, ins) == SubSeq(s, 1, pos) \o ins \o SubSeq(s, pos + 1, Len(s))

\* one of the two while loops of transformForValuePrinting, from position
\* pos on: every occurrence of kw not preceded by `public` gets "public "
\* in front
RECURSIVE AddPublic(_, _, _)
AddPublic(result, kw, pos) ==
    LET at == find(result, kw, pos)
        before == substr(result, Minus6(at), 6)
    IN  IF at = Npos THEN [threw |-> FALSE, text |-> result]
        ELSE IF at = 0 THEN AddPublic(insert(result, at, InsPublic), kw, at + 11)
        ELSE IF before.threw THEN [threw |-> TRUE, text |-> << >>]
        ELSE IF before.text # KwPublic
        THEN AddPublic(insert(result, at, InsPublic), kw, at + 11)
        ELSE AddPublic(result, kw, at + 4)

\* the second loop and the appended newline
AddPublicVar(lets) ==
    LET vars2 == AddPublic(lets.text, KwVar, 0)
    IN  IF lets.threw \/ vars2.threw THEN [threw |-> TRUE, text |-> << >>]
        ELSE [threw |-> FALSE, text |-> vars2.text \o Newline]

\* InProcessSwiftRuntimeInterfaceBuilder::transformForValuePrinting on the
\* characters of the text
transformForValuePrintingChars(c) == AddPublicVar(AddPublic(c, KwLet, 0))

\* does pat occur in s
Contains(s, pat) == find(s, pat, 0) # Npos

\* the expression-vs-statement classification of the mock builder in
\* test_simple_value_capture.cpp
isExpression(c) ==
    /\ ~ Contains(c, <<"=">>)
    /\ \/ \E op \in {"+", "-", "*", "/"} : Contains(c, <<op>>)
       \/ Contains(c, <<"p", "r", "i", "n", "t">>)
       \/ Contains(c, <<"r", "e", "t", "u", "r", "n">>)
       \/ Contains(c, <<"t", "r", "u", "e">>)
       \/ Contains(c, <<"f", "a", "l", "s", "e">>)
       \/ (Len(c) > 0 /\ c[1] \in {"0", "1", "2", "3", "4", "5", "6", "7", "8", "9"})
       \/ (Len(c) > 1 /\ c[1] = "\"")

(***************************************************************************)
(* Error messages.                                                         *)
(***************************************************************************)
OK            == ""
ErrSetup      == "Failed to setup CompilerInstance"
ErrSema       == "Semantic analysis failed"
ErrAddIR      == "addIRModule failed"
ErrCtors      == "initialize failed"
ErrRemove     == "ResourceTracker::remove failed"
ErrTooMany    == "Operation failed. Too many undos"
ErrNoInterp   == "Interpreter not initialized"
ErrNotInit    == "REPL not initialized"
ErrStopped    == "Stopped due to previous failure"
ErrFailedExec == "Failed to execute: "
ErrCompile    == "Compilation failed: "
ErrValidate   == "Failed to validate Swift compiler configuration"
ErrInitThrew  == "Initialization failed: "

VARIABLES
    initialized,        \* Impl::initialized
    lastError,          \* Impl::lastError
    stats,              \* Impl::stats (the three counters)
    currentModuleName,  \* Impl::currentModuleName ("" or a clock stamp)
    interpreter,        \* Impl::interpreter and everything it owns
    clock,              \* last reading of steady_clock
    epoch,              \* number of SwiftInterpreter objects constructed
    pastNames,          \* fragment names of units of destroyed interpreters
    pastDefs,           \* names those units made visible to later submissions
    ret,                \* the last call and what it returned
    crashed,            \* the process performed a null dereference
    llvmInitialized,    \* Impl::llvmInitialized (static)
    initMutex,          \* Impl::initMutex (static): the thread holding it, or 0
    pc,                 \* where each thread is in the constructors
    constructed,        \* number of REPL objects each thread has constructed
    llvmInitRuns,       \* executions of the guarded InitializeAll* block
    nativeInitRuns,     \* executions of the InitializeNativeTarget* calls
    running,            \* SwiftJITServer::running
    requestQueue,       \* SwiftJITServer::requestQueue (the requests)
    delivered,          \* the requests waitAndPop has returned, in that order
    workerThreads,      \* each worker's position, request and result
    serverStats,        \* SwiftJITServer::stats (the three counters)
    mainPc,             \* where main() of the server example is
    callerCode,         \* synthesizeExpr: the caller's text, character by character
    synthesized,        \* synthesizeExpr: what it returned, or that it threw
    values,             \* the SwiftValue objects of a caller
    assigned,           \* per object: given a value and not cleared since
    lastCall            \* the last operation made on the SwiftValue objects

vars == <<initialized, lastError, stats, currentModuleName, interpreter,
          clock, epoch, pastNames, pastDefs, ret, crashed>>

\* the process-wide state of the constructors
processVars == <<llvmInitialized, initMutex, pc, constructed, llvmInitRuns,
                 nativeInitRuns>>

\* everything that is not the state of the one REPL object
\* the state of the server example
serverVars == <<running, requestQueue, delivered, workerThreads, serverStats,
                mainPc>>

\* the text being transformed
textVars == <<callerCode, synthesized>>

\* the SwiftValue objects
valueVars == <<values, assigned, lastCall>>

restVars == <<processVars, serverVars, textVars, valueVars>>
notProcessVars == <<vars, serverVars, textVars, valueVars>>
notServerVars == <<processVars, textVars, valueVars>>
notTextVars == <<vars, processVars, serverVars, valueVars>>
notValueVars == <<vars, processVars, serverVars, textVars>>
allVars == <<vars, restVars>>

(***************************************************************************)
(* SwiftInterpreter and the objects it owns.                               *)
(***************************************************************************)
\* values of the resource-tracker map: no entry for the key, an entry holding
\* a null tracker, or (a positive number) the tracker the entry holds
Absent == -1
NullRT == 0

BaseModule(ctx) == [name |-> 0, ctx |-> ctx, text |-> NoText, imports |-> {}]

\* std::unique_ptr<SwiftInterpreter> holding nullptr
NoInterpreter ==
    [alive |-> FALSE, IncrParser |-> FALSE, IncrExecutor |-> FALSE,
     RuntimeIB |-> FALSE, session |-> 0, modules |-> << >>, PTUs |-> << >>,
     InputCount |-> 0, InitPTUSize |-> 0, hadError |-> FALSE,
     ResourceTrackers |-> [a \in 1..MaxAddr |-> Absent], live |-> {},
     orphaned |-> {}, nextAddr |-> 1, undone |-> {},
     Initialized |-> FALSE, initRuns |-> 0]

\* the constructor with markUserCodeStart counting one unit more than the
\* list holds
SwiftInterpreterCtorMarksOne(ctx, built) ==
    [NoInterpreter EXCEPT
        !.alive = TRUE,
        !.session = ctx,
        !.modules = IF built = "noCI" THEN << >> ELSE <<BaseModule(ctx)>>,
        !.IncrParser = (built # "noCI"),
        !.IncrExecutor = (built = "ok"),
        !.InitPTUSize = Len(NoInterpreter.PTUs) + 1]

\* SwiftInterpreter::SwiftInterpreter; built \in {"ok", "noCI", "noJIT"}:
\*   "noCI"  compilerInstance->setup failed: early return, nothing created
\*   "noJIT" LLJITBuilder::create failed: early return, no executor, and
\*           markUserCodeStart is not reached
\*   "ok"    everything is created and markUserCodeStart runs
SwiftInterpreterCtor(ctx, built) ==
    [NoInterpreter EXCEPT
        !.alive = TRUE,
        !.session = ctx,
        !.modules = IF built = "noCI" THEN << >> ELSE <<BaseModule(ctx)>>,
        !.IncrParser = (built # "noCI"),
        !.IncrExecutor = (built = "ok"),
        \* markUserCodeStart: InitPTUSize = IncrParser->getPTUs().size()
        !.InitPTUSize = Len(NoInterpreter.PTUs)]

\* SwiftInterpreter::getEffectivePTUSize
getEffectivePTUSize(I) == Len(I.PTUs) - I.InitPTUSize

\* declarations of a fragment that other fragments can see: only `public`
\* declarations cross a module boundary
Exported(m) == IF m.text.pub THEN Defs(m.text.src) ELSE {}

\* names resolvable through an import list
Visible(mods) == UNION {Exported(mods[i]) : i \in 1..Len(mods)}

\* the fragment (module record) with a given name
ModuleNamed(I, n) == CHOOSE m \in {I.modules[i] : i \in 1..Len(I.modules)} : m.name = n

\* names declared for later submissions by the units now in the list
UnitDefs(I) ==
    UNION {Exported(ModuleNamed(I, I.PTUs[i].ModulePart)) : i \in 1..Len(I.PTUs)}

ModuleNames(mods) == {mods[i].name : i \in 1..Len(mods)}

\* addresses of the nodes of the std::list of units
LiveAddrs(I) == {I.PTUs[i].addr : i \in 1..Len(I.PTUs)}

\* addresses the allocator may return for a new list node: a freed one, or
\* the next never-used one
FreeAddrs(I) ==
    ((1..(I.nextAddr - 1)) \ LiveAddrs(I))
        \cup (IF I.nextAddr <= MaxAddr THEN {I.nextAddr} ELSE {})

(***************************************************************************)
(* SwiftIncrementalParser::Parse.  env is what the environment answers:    *)
(*   env.setupFails  tempCI->setup reports failure                         *)
(*   env.lowered     lowerSwiftCodeToLLVMModule returns a module           *)
(*   env.addr        address of the new list node                          *)
(***************************************************************************)
\* Parse with the unit recorded before the diagnostics are looked at
ParseRecordsFirst(I, Input, env) ==
    LET moduleName == Len(I.modules)
        newModule == [name |-> moduleName, ctx |-> I.session, text |-> Input,
                      imports |-> ModuleNames(I.modules)]
        semaError == \/ ~ WellFormed(Input.src)
                     \/ ~ (Refs(Input.src) \subseteq Visible(I.modules))
        ptu == [addr |-> env.addr, ModulePart |-> moduleName,
                TheModule |-> env.lowered, InputCode |-> Input,
                ctx |-> I.session]
        I1 == [I EXCEPT !.modules = Append(@, newModule),
                        !.InputCount = @ + 1,
                        !.hadError = @ \/ (semaError /\ ~ env.setupFails),
                        !.PTUs = Append(@, ptu),
                        !.nextAddr = IF env.addr = @ THEN @ + 1 ELSE @]
    IN  [I |-> I1,
         err |-> IF env.setupFails THEN ErrSetup
                 ELSE IF I1.hadError THEN ErrSema ELSE OK]

\* Parse naming the fragment after the number of units in the list
ParseNamesByUnits(I, Input, env) ==
    LET moduleName == Len(I.PTUs) + 1
        newModule == [name |-> moduleName, ctx |-> I.session, text |-> Input,
                      imports |-> ModuleNames(I.modules)]
        \* addLoadedModule + modules->push_back, before semantic analysis
        I1 == [I EXCEPT !.modules = Append(@, newModule),
                        !.InputCount = @ + 1]
        \* performSema: errors are recorded in the diagnostic engine of the
        \* context that owns the fragment, i.e. the shared context
        semaError == \/ ~ WellFormed(Input.src)
                     \/ ~ (Refs(Input.src) \subseteq Visible(I.modules))
        I2 == [I1 EXCEPT !.hadError = @ \/ semaError]
        astHadError == I2.hadError
        diagsHadError == semaError
        ptu == [addr |-> env.addr, ModulePart |-> moduleName,
                TheModule |-> env.lowered, InputCode |-> Input,
                ctx |-> I.session]
    IN  IF env.setupFails
        THEN [I |-> I1, err |-> ErrSetup]
        ELSE IF astHadError \/ diagsHadError
        THEN [I |-> I2, err |-> ErrSema]
        ELSE [I |-> [I2 EXCEPT !.PTUs = Append(@, ptu),
                               !.nextAddr = IF env.addr = @ THEN @ + 1 ELSE @],
              err |-> OK]

\* SwiftIncrementalParser::Parse
Parse(I, Input, env) ==
    LET \* "Evaluation_" + std::to_string(modules->size())
        moduleName == Len(I.modules)
        newModule == [name |-> moduleName, ctx |-> I.session, text |-> Input,
                      imports |-> ModuleNames(I.modules)]
        \* addLoadedModule + modules->push_back, before semantic analysis
        I1 == [I EXCEPT !.modules = Append(@, newModule),
                        !.InputCount = @ + 1]
        \* performSema: errors are recorded in the diagnostic engine of the
        \* context that owns the fragment, i.e. the shared context
        semaError == \/ ~ WellFormed(Input.src)
                     \/ ~ (Refs(Input.src) \subseteq Visible(I.modules))
        I2 == [I1 EXCEPT !.hadError = @ \/ semaError]
        astHadError == I2.hadError
        diagsHadError == semaError
        ptu == [addr |-> env.addr, ModulePart |-> moduleName,
                TheModule |-> env.lowered, InputCode |-> Input,
                ctx |-> I.session]
    IN  IF env.setupFails
        THEN [I |-> I1, err |-> ErrSetup]
        ELSE IF astHadError \/ diagsHadError
        THEN [I |-> I2, err |-> ErrSema]
        ELSE [I |-> [I2 EXCEPT !.PTUs = Append(@, ptu),
                               !.nextAddr = IF env.addr = @ THEN @ + 1 ELSE @],
              err |-> OK]

\* SwiftIncrementalParser::CleanUpPTU
CleanUpPTU(PTU) ==
    [PTU EXCEPT !.TheModule = FALSE, !.ModulePart = -1, !.InputCode = NoText]

(***************************************************************************)
(* SwiftIncrementalExecutor.  A tracker is [id, unit, code]: the unit      *)
(* (fragment name) it was created for and whether code was linked under   *)
(* it.  A tracker that loses its last reference without remove() hands its *)
(* code to the dylib's default tracker: the unit's code stays linked and   *)
(* can no longer be removed (orphaned).                                    *)
(***************************************************************************)
TrackerOf(I, rt) == CHOOSE t \in I.live : t.id = rt

\* JITDylib::createResourceTracker: a tracker distinct from every live one
createResourceTracker(I) ==
    CHOOSE n \in 1..(Cardinality(I.live) + 1) : \A t \in I.live : t.id # n

\* the map entry for key a stops referring to its tracker
DropRef(I, a) ==
    LET rt == I.ResourceTrackers[a]
    IN  IF rt > NullRT /\ \E t \in I.live : t.id = rt
        THEN LET t == TrackerOf(I, rt)
             IN  [I EXCEPT !.live = @ \ {t},
                           !.orphaned = IF t.code THEN @ \cup {t.unit} ELSE @]
        ELSE I

\* addModule handing the linker the module while the unit keeps its pointer
addModuleKeepsModule(I, idx, env) ==
    LET PTU == I.PTUs[idx]
        I0 == DropRef(I, PTU.addr)
        RT == createResourceTracker(I0)
        tracker == [id |-> RT, unit |-> PTU.ModulePart,
                    code |-> PTU.TheModule /\ ~ env.addFails]
    IN  [I |-> [I0 EXCEPT !.ResourceTrackers[PTU.addr] = RT,
                          !.live = @ \cup {tracker}],
         err |-> IF PTU.TheModule /\ env.addFails THEN ErrAddIR ELSE OK]

\* SwiftIncrementalExecutor::addModule on the unit at position idx;
\* env.addFails: Jit->addIRModule returns an error
addModule(I, idx, env) ==
    LET PTU == I.PTUs[idx]
        hasModule == PTU.TheModule
        failed == hasModule /\ env.addFails
        \* ResourceTrackers[&PTU] = RT, whether or not a module follows
        I0 == DropRef(I, PTU.addr)
        RT == createResourceTracker(I0)
        tracker == [id |-> RT, unit |-> PTU.ModulePart,
                    code |-> hasModule /\ ~ env.addFails]
        I1 == [I0 EXCEPT !.ResourceTrackers[PTU.addr] = RT,
                         !.live = @ \cup {tracker},
                         \* std::move(PTU.TheModule), then release()
                         !.PTUs[idx].TheModule = FALSE]
    IN  [I |-> I1, err |-> IF failed THEN ErrAddIR ELSE OK]

\* SwiftIncrementalExecutor::removeModule on the unit whose node lives at
\* address a; env.removeFails: RT->remove() returns an error.
\* removed is the tracker remove() was called on (0: none)
removeModule(I, a, env) ==
    LET RT == I.ResourceTrackers[a]
    IN  IF RT = Absent \/ RT = NullRT
        \* operator[] default-constructs the entry it does not find
        THEN [I |-> [I EXCEPT !.ResourceTrackers[a] = NullRT],
              err |-> OK, removed |-> 0]
        ELSE LET t == TrackerOf(I, RT)
                 I1 == [I EXCEPT !.ResourceTrackers[a] = Absent,
                                 !.live = @ \ {t}]
             IN  IF env.removeFails
                 THEN [I |-> [I1 EXCEPT !.orphaned =
                                  IF t.code THEN @ \cup {t.unit} ELSE @],
                       err |-> ErrRemove, removed |-> RT]
                 ELSE [I |-> I1, err |-> OK, removed |-> RT]

\* SwiftIncrementalExecutor::runCtors: Jit->initialize on the main dylib,
\* whatever the Initialized flag says; env.ctorsFail: it returns an error.
\* initRuns counts the times the initialization of the dylib was performed
runCtors(I, env) ==
    IF env.ctorsFail THEN [I |-> I, err |-> ErrCtors]
    ELSE [I |-> [I EXCEPT !.initRuns = @ + 1], err |-> OK]

\* is any code linked into the session
CodeLinked(I) == I.orphaned # {} \/ \E t \in I.live : t.code

\* execute returning the failed lookup of the entry symbol as its error
executeStrict(I, env) ==
    IF \A a \in 1..MaxAddr : I.ResourceTrackers[a] = Absent
    THEN [I |-> I, err |-> OK, looked |-> FALSE, ran |-> FALSE]
    ELSE IF ~ I.Initialized /\ env.ctorsFail
    THEN [I |-> I, err |-> ErrCtors, looked |-> FALSE, ran |-> FALSE]
    ELSE LET I1 == IF I.Initialized THEN I
                   ELSE [I EXCEPT !.Initialized = TRUE, !.initRuns = @ + 1]
         IN  [I |-> I1, err |-> IF env.found THEN OK ELSE "Symbol not found",
              looked |-> TRUE, ran |-> env.found]

\* SwiftIncrementalExecutor::execute.  env.ctorsFail: Jit->initialize
\* returns an error; env.found: the lookup of swift_jit_main succeeds.
\* looked: the lookup was made; ran: the entry function was called
execute(I, env) ==
    IF \A a \in 1..MaxAddr : I.ResourceTrackers[a] = Absent
    THEN [I |-> I, err |-> OK, looked |-> FALSE, ran |-> FALSE]
    ELSE IF ~ I.Initialized /\ env.ctorsFail
    THEN [I |-> I, err |-> ErrCtors, looked |-> FALSE, ran |-> FALSE]
    ELSE LET I1 == IF I.Initialized THEN I
                   ELSE [I EXCEPT !.Initialized = TRUE, !.initRuns = @ + 1]
         IN  [I |-> I1, err |-> OK, looked |-> TRUE, ran |-> env.found]

\* SwiftInterpreter::Execute once addModule has answered a: runCtors unless
\* the addition failed.  steps: the calls made on the executor, in order
ExecuteAdded(a, env) ==
    LET c == runCtors(a.I, env)
    IN  IF a.err # OK
        THEN [I |-> a.I, err |-> a.err, steps |-> <<"addModule">>]
        ELSE [I |-> c.I, err |-> c.err, steps |-> <<"addModule", "runCtors">>]

\* SwiftInterpreter::Execute: addModule, then runCtors
Execute(I, idx, env) == ExecuteAdded(addModule(I, idx, env), env)

\* the calls one iteration of the loop of Undo makes on the unit at
\* position at of the list: removeModule when there is an executor, and,
\* unless that failed, CleanUpPTU and pop_back
UndoSteps(I, at, failed) ==
    (IF I.IncrExecutor THEN <<[call |-> "removeModule", at |-> at]>> ELSE << >>)
    \o (IF failed THEN << >>
        ELSE <<[call |-> "CleanUpPTU", at |-> at],
               [call |-> "pop_back", at |-> at]>>)

\* the loop of Undo popping the head of the list instead of its tail
RECURSIVE UndoLoopFront(_, _, _)
UndoLoopFront(I, n, failAt) ==
    IF n = 0 THEN [I |-> I, err |-> OK, steps |-> << >>]
    ELSE LET r == IF I.IncrExecutor
                  THEN removeModule(I, I.PTUs[1].addr,
                                    [removeFails |-> (failAt = n)])
                  ELSE [I |-> I, err |-> OK, removed |-> 0]
             popped == [r.I EXCEPT
                          !.PTUs = Tail(@),
                          !.undone = @ \cup {[name |-> I.PTUs[1].ModulePart,
                                               at |-> Len(I.modules)]}]
         IN  IF r.err # OK
             THEN [I |-> r.I, err |-> r.err, steps |-> UndoSteps(I, 1, TRUE)]
             ELSE [UndoLoopFront(popped, n - 1, failAt) EXCEPT
                      !.steps = UndoSteps(I, 1, FALSE) \o @]

\* the loop of Undo discarding and popping the unit before its tracker is
\* removed
RECURSIVE UndoLoopCleanFirst(_, _, _)
UndoLoopCleanFirst(I, n, failAt) ==
    IF n = 0 THEN [I |-> I, err |-> OK, steps |-> << >>]
    ELSE LET last == Len(I.PTUs)
             popped == [I EXCEPT
                          !.PTUs = SubSeq(@, 1, last - 1),
                          !.undone = @ \cup {[name |-> I.PTUs[last].ModulePart,
                                               at |-> Len(I.modules)]}]
             r == IF I.IncrExecutor
                  THEN removeModule(popped, I.PTUs[last].addr,
                                    [removeFails |-> (failAt = n)])
                  ELSE [I |-> popped, err |-> OK, removed |-> 0]
             mine == <<[call |-> "CleanUpPTU", at |-> last],
                       [call |-> "pop_back", at |-> last]>> \o
                     (IF I.IncrExecutor
                      THEN <<[call |-> "removeModule", at |-> last]>> ELSE << >>)
         IN  IF r.err # OK THEN [I |-> r.I, err |-> r.err, steps |-> mine]
             ELSE [UndoLoopCleanFirst(r.I, n - 1, failAt) EXCEPT
                      !.steps = mine \o @]

\* the loop of SwiftInterpreter::Undo with n iterations to go; the removal
\* of the iteration numbered failAt (counted from the end) fails
RECURSIVE UndoLoop(_, _, _)
UndoLoop(I, n, failAt) ==
    IF n = 0 THEN [I |-> I, err |-> OK, steps |-> << >>]
    ELSE LET last == Len(I.PTUs)
             r == IF I.IncrExecutor
                  THEN removeModule(I, I.PTUs[last].addr,
                                    [removeFails |-> (failAt = n)])
                  ELSE [I |-> I, err |-> OK, removed |-> 0]
             cleaned == [r.I EXCEPT !.PTUs[last] = CleanUpPTU(@)]
             \* pop_back; undone remembers the fragment of the unit and how
             \* many fragments existed when it was undone
             popped == [cleaned EXCEPT
                          !.PTUs = SubSeq(@, 1, last - 1),
                          !.undone = @ \cup {[name |-> I.PTUs[last].ModulePart,
                                               at |-> Len(I.modules)]}]
         IN  IF r.err # OK
             THEN [I |-> r.I, err |-> r.err, steps |-> UndoSteps(I, last, TRUE)]
             ELSE [UndoLoop(popped, n - 1, failAt) EXCEPT
                      !.steps = UndoSteps(I, last, FALSE) \o @]

\* Undo that undoes what it can before it reports that N was too large
UndoClamped(I, N, failAt) ==
    IF N > getEffectivePTUSize(I)
    THEN [UndoLoop(I, getEffectivePTUSize(I), 0) EXCEPT !.err = ErrTooMany]
    ELSE UndoLoop(I, N, failAt)

\* SwiftInterpreter::Undo
Undo(I, N, failAt) ==
    IF N > getEffectivePTUSize(I)
    THEN [I |-> I, err |-> ErrTooMany, steps |-> << >>]
    ELSE UndoLoop(I, N, failAt)

\* SwiftInterpreter::synthesizeExpr
synthesizeExpr(code) == transformForValuePrinting(code)

\* ParseAndExecute once Execute has answered x: its error is logged and
\* success is returned
ParseAndExecuteExecuted(x) ==
    [I |-> x.I, err |-> OK, crash |-> FALSE,
     steps |-> <<"transform", "parse">> \o x.steps, exec |-> x.err]

\* ParseAndExecute once the parser has answered p
ParseAndExecuteParsed(p, env) ==
    IF p.err # OK
    THEN [I |-> p.I, err |-> p.err, crash |-> FALSE,
          steps |-> <<"transform", "parse">>, exec |-> OK]
    ELSE IF ~ p.I.IncrExecutor
    THEN [I |-> p.I, err |-> OK, crash |-> TRUE,
          steps |-> <<"transform", "parse">>, exec |-> OK]
    ELSE ParseAndExecuteExecuted(Execute(p.I, Len(p.I.PTUs), env))

\* SwiftInterpreter::ParseAndExecute.  crash: a member of a null
\* IncrParser / IncrExecutor was dereferenced
\* steps: the stages the call went through, in order; exec: the error of
\* Execute, which is written to the log
ParseAndExecute(I, Code, env) ==
    LET I0 == [I EXCEPT !.RuntimeIB = TRUE]
        transformedCode == synthesizeExpr(Code)
    IN  IF ~ I0.IncrParser
        THEN [I |-> I0, err |-> OK, crash |-> TRUE,
              steps |-> <<"transform">>, exec |-> OK]
        ELSE ParseAndExecuteParsed(Parse(I0, transformedCode, env), env)

(***************************************************************************)
(* SwiftJITREPL::Impl.  G is the facade's state as one record.             *)
(***************************************************************************)
\* an empty std::string module name
NoName == -1

Msg(prefix, detail) == [prefix |-> prefix, detail |-> detail]
NoError == Msg("", "")

\* EvaluationResult(error) and the successful EvaluationResult
Failure(prefix, detail) == [success |-> FALSE, error_message |-> Msg(prefix, detail)]
Success == [success |-> TRUE, error_message |-> NoError]

ZeroStats == [total_expressions |-> 0, successful_compilations |-> 0,
              failed_compilations |-> 0]

Cur == [initialized |-> initialized, lastError |-> lastError, stats |-> stats,
        currentModuleName |-> currentModuleName, interpreter |-> interpreter,
        clock |-> clock, epoch |-> epoch, pastNames |-> pastNames,
        pastDefs |-> pastDefs]

Commit(G) ==
    /\ initialized' = G.initialized
    /\ lastError' = G.lastError
    /\ stats' = G.stats
    /\ currentModuleName' = G.currentModuleName
    /\ interpreter' = G.interpreter
    /\ clock' = G.clock
    /\ epoch' = G.epoch
    /\ pastNames' = G.pastNames
    /\ pastDefs' = G.pastDefs

\* the interpreter object is destroyed (unique_ptr reset or reassigned);
\* the fragment names of its units and what they declared are remembered
Destroy(G) ==
    [G EXCEPT !.interpreter = NoInterpreter,
              !.pastNames = @ \cup {G.interpreter.PTUs[i].ModulePart :
                                      i \in 1..Len(G.interpreter.PTUs)},
              !.pastDefs = @ \cup UnitDefs(G.interpreter)]

\* Impl::initialize.  outcome is what the environment does:
\*   "setupFail"  the validating tempCI->setup fails
\*   "threw"      make_unique throws
\*   "ok", "noCI", "noJIT"  the constructor returns (see SwiftInterpreterCtor)
\* t is the clock reading generateUniqueModuleName takes, if it is called
initialize(G, outcome, t) ==
    LET fresh == G.currentModuleName = NoName
        moduleName == IF fresh THEN t ELSE G.currentModuleName
        G1 == [G EXCEPT !.currentModuleName = moduleName,
                        !.clock = IF fresh THEN t ELSE @]
    IN  CASE outcome = "setupFail" ->
               [G |-> [G1 EXCEPT !.lastError = Msg(ErrValidate, "")], ok |-> FALSE]
          [] outcome = "threw" ->
               [G |-> [G1 EXCEPT !.lastError = Msg(ErrInitThrew, "")], ok |-> FALSE]
          [] OTHER ->
               [G |-> [Destroy(G1) EXCEPT
                          !.interpreter = SwiftInterpreterCtor(G1.epoch + 1, outcome),
                          !.epoch = @ + 1,
                          !.initialized = TRUE],
                ok |-> TRUE]

\* reset that clears the bookkeeping but keeps the interpreter it has
resetKeepsInterpreter(G, outcome, t) ==
    IF outcome \in {"setupFail", "threw"} \/ ~ G.interpreter.alive
    THEN initialize([Destroy(G) EXCEPT !.currentModuleName = NoName,
                                       !.stats = ZeroStats,
                                       !.lastError = NoError,
                                       !.initialized = FALSE], outcome, t)
    ELSE [G |-> [G EXCEPT !.currentModuleName = t,
                          !.clock = t,
                          !.stats = ZeroStats,
                          !.lastError = NoError,
                          !.epoch = @ + 1,
                          !.initialized = TRUE],
          ok |-> TRUE]

\* Impl::reset
reset(G, outcome, t) ==
    LET G0 == [Destroy(G) EXCEPT !.currentModuleName = NoName,
                                 !.stats = ZeroStats,
                                 !.lastError = NoError,
                                 !.initialized = FALSE]
    IN  initialize(G0, outcome, t)

\* what the environment may answer during one submission
\* (answers that are never asked for are fixed to FALSE)
EvalEnvs(I) ==
    {env \in [setupFails : BOOLEAN, lowered : BOOLEAN, addFails : BOOLEAN,
              ctorsFail : BOOLEAN, threw : BOOLEAN, addr : FreeAddrs(I)] :
        /\ env.threw => ~ env.setupFails
        /\ (env.threw \/ env.setupFails) =>
               ~ env.lowered /\ env.addr = CHOOSE a \in FreeAddrs(I) : TRUE
        /\ ~ env.lowered => ~ env.addFails
        /\ (env.threw \/ env.setupFails \/ env.addFails) => ~ env.ctorsFail}

\* a failure counted without the total
CountFailureOnly(st) ==
    [st EXCEPT !.failed_compilations = @ + 1]

CountFailure(st) ==
    [st EXCEPT !.total_expressions = @ + 1, !.failed_compilations = @ + 1]
CountSuccess(st) ==
    [st EXCEPT !.total_expressions = @ + 1, !.successful_compilations = @ + 1]

\* Impl::evaluate once ParseAndExecute has answered r
evaluateReturned(G, r) ==
    IF r.crash
    THEN [G |-> [G EXCEPT !.interpreter = r.I], result |-> Success,
          crash |-> TRUE, steps |-> r.steps, exec |-> r.exec]
    ELSE IF r.err # OK
    \* the second toString reads the moved-from error: no detail
    THEN [G |-> [G EXCEPT !.interpreter = r.I,
                          !.lastError = Msg(ErrFailedExec, r.err),
                          !.stats = CountFailure(@)],
          result |-> Failure(ErrFailedExec, ""), crash |-> FALSE,
          steps |-> r.steps, exec |-> r.exec]
    ELSE [G |-> [G EXCEPT !.interpreter = r.I, !.stats = CountSuccess(@)],
          result |-> Success, crash |-> FALSE,
          steps |-> r.steps, exec |-> r.exec]

\* evaluate with the statistics updated before the initialized check
evaluateCountsFirst(G, expression, env) ==
    IF ~ G.initialized
    THEN [G |-> [G EXCEPT !.stats = CountFailure(@)],
          result |-> Failure(ErrNotInit, ""), crash |-> FALSE,
          steps |-> << >>, exec |-> OK]
    ELSE IF env.threw
    THEN [G |-> [G EXCEPT !.lastError = Msg("", "what"),
                          !.stats = CountFailure(@)],
          result |-> Failure(ErrCompile, "what"), crash |-> FALSE,
          steps |-> << >>, exec |-> OK]
    ELSE evaluateReturned(G, ParseAndExecute(G.interpreter, expression, env))

\* Impl::evaluate.  env.threw: a std::exception escapes ParseAndExecute
\* before the parser is entered
evaluate(G, expression, env) ==
    IF ~ G.initialized
    THEN [G |-> G, result |-> Failure(ErrNotInit, ""), crash |-> FALSE,
          steps |-> << >>, exec |-> OK]
    ELSE IF ~ G.interpreter.alive
    THEN [G |-> [G EXCEPT !.lastError = Msg(ErrNoInterp, "")],
          result |-> Failure(ErrNoInterp, ""), crash |-> FALSE,
          steps |-> << >>, exec |-> OK]
    ELSE IF env.threw
    THEN [G |-> [G EXCEPT !.lastError = Msg("", "what"),
                          !.stats = CountFailure(@)],
          result |-> Failure(ErrCompile, "what"), crash |-> FALSE,
          steps |-> << >>, exec |-> OK]
    ELSE evaluateReturned(G, ParseAndExecute(G.interpreter, expression, env))

\* n copies of the placeholder result
Stopped(n) == [i \in 1..n |-> Failure(ErrStopped, "")]

\* the loop of evaluateMultiple without the break after a failure
RECURSIVE evaluateLoopNoBreak(_, _, _, _)
evaluateLoopNoBreak(G, expressions, i, results) ==
    IF i > Len(expressions)
    THEN {[G |-> G, results |-> results, crash |-> FALSE]}
    ELSE UNION {
           IF o.crash
           THEN {[G |-> o.G, results |-> results, crash |-> TRUE]}
           ELSE evaluateLoopNoBreak(o.G, expressions, i + 1,
                                    Append(results, o.result))
           : o \in {evaluate(G, expressions[i], env) :
                        env \in EvalEnvs(G.interpreter)}}

\* the loop of Impl::evaluateMultiple from position i on: the set of its
\* possible outcomes, one per way the environment can answer
RECURSIVE evaluateLoop(_, _, _, _)
evaluateLoop(G, expressions, i, results) ==
    IF i > Len(expressions)
    THEN {[G |-> G, results |-> results, crash |-> FALSE]}
    ELSE UNION {
           IF o.crash
           THEN {[G |-> o.G, results |-> results, crash |-> TRUE]}
           ELSE IF ~ o.result.success
           THEN {[G |-> o.G,
                  results |-> Append(results, o.result)
                                \o Stopped(Len(expressions) - i),
                  crash |-> FALSE]}
           ELSE evaluateLoop(o.G, expressions, i + 1, Append(results, o.result))
           : o \in {evaluate(G, expressions[i], env) :
                        env \in EvalEnvs(G.interpreter)}}

\* Impl::evaluateMultiple
evaluateMultiple(G, expressions) ==
    IF ~ G.initialized
    THEN {[G |-> G,
           results |-> [i \in 1..Len(expressions) |-> Failure(ErrNotInit, "")],
           crash |-> FALSE]}
    ELSE evaluateLoop(G, expressions, 1, << >>)

(***************************************************************************)
(* The operations of the public interface, one action each.                *)
(***************************************************************************)
InitOutcomes == {"setupFail", "threw", "ok", "noCI", "noJIT"}

Call(op, arg, res) == [op |-> op, arg |-> arg, res |-> res]

\* the state is within the bounds of the model
WithinBounds(G) ==
    /\ Len(G.interpreter.modules) <=
           (IF G.epoch <= 1 THEN MaxModules ELSE MaxModulesAfterReset)
    /\ G.stats.total_expressions <= MaxStat

\* Threads that construct REPL objects, and how many each constructs
MaxThreads == 3
MaxInstances == 2
Threads == 1..MaxThreads

\* static members at program start (SwiftJITREPL.cpp:583-584); no thread has
\* entered a constructor
ProcessInit ==
    /\ llvmInitialized = FALSE
    /\ initMutex = 0
    /\ pc = [t \in Threads |-> "idle"]
    /\ constructed = [t \in Threads |-> 0]
    /\ llvmInitRuns = 0
    /\ nativeInitRuns = 0

\* Worker threads of the server, and the number of requests main() submits
NumWorkers == 2
MaxRequests == 2
Workers == 1..NumWorkers
ServerExpressions == {"let a = 5", "a + 1"}

\* EvaluationRequest(id, expression); the ids are "req_" + i
EvaluationRequest(id, expression) == [id |-> id, expression |-> expression]
NoRequest == EvaluationRequest(-1, "")
Idle(at) == [pc |-> at, request |-> NoRequest, success |-> FALSE, raced |-> FALSE]

\* SwiftJITServer server(config): constructed, not running, nothing queued
ServerInit ==
    /\ running = FALSE
    /\ requestQueue = << >>
    /\ delivered = << >>
    /\ workerThreads = [w \in Workers |-> Idle("none")]
    /\ serverStats = [total_requests |-> 0, successful_evaluations |-> 0,
                      failed_evaluations |-> 0]
    /\ mainPc = "constructed"

\* no text has been handed to synthesizeExpr
NotTransformed == [threw |-> FALSE, text |-> << >>, done |-> FALSE]
TextInit ==
    /\ callerCode = << >>
    /\ synthesized = NotTransformed

\* SwiftValue objects a caller holds, and the values it stores in them
NumValues == 3
Objects == 1..NumValues
Stored == {<<"42", "Int">>, <<"Hello", "String">>}

\* SwiftValue() and SwiftValue(val, type)
SwiftValueDefault == [Value |-> "", Type |-> "", Valid |-> FALSE]
SwiftValueCtor(val, type) == [Value |-> val, Type |-> type, Valid |-> TRUE]

\* SwiftValue::isValid
isValid(v) == v.Valid

\* clear that leaves the flag alone
clearKeepsValid(v) == [Value |-> "", Type |-> "", Valid |-> v.Valid]

\* SwiftValue::clear
clear(v) == [Value |-> "", Type |-> "", Valid |-> FALSE]

\* SwiftValue::setValue
setValue(v, val, type) == [Value |-> val, Type |-> type, Valid |-> TRUE]

\* the implicit copy constructor and copy assignment: member by member
CopyOf(v) == [Value |-> v.Value, Type |-> v.Type, Valid |-> v.Valid]

\* what the implicit move constructor and move assignment leave in the
\* source: each std::string is valid but unspecified (emptied, or as it
\* was), and the bool is merely copied
MovedFrom(v) ==
    {[Value |-> val, Type |-> type, Valid |-> v.Valid] :
        val \in {"", v.Value}, type \in {"", v.Type}}

NoCall == [op |-> "none", target |-> 0, source |-> 0, val |-> "", type |-> ""]

\* no SwiftValue object has been touched
ValueInit ==
    /\ values = [o \in Objects |-> SwiftValueDefault]
    /\ assigned = [o \in Objects |-> FALSE]
    /\ lastCall = NoCall

RestInit == ProcessInit /\ ServerInit /\ TextInit /\ ValueInit

\* the expression lists handed to evaluateMultiple
BatchSnippets == {"let a = 5", "let x = ;"}
Batches == UNION {[1..n -> BatchSnippets] : n \in 0..MaxBatch}

\* the REPL object after construction
ReplInit ==
    /\ initialized = FALSE
    /\ lastError = NoError
    /\ stats = ZeroStats
    /\ currentModuleName = NoName
    /\ interpreter = NoInterpreter
    /\ clock = 0
    /\ epoch = 0
    /\ pastNames = {}
    /\ pastDefs = {}
    /\ ret = Call("new", 0, TRUE)
    /\ crashed = FALSE

Init == ReplInit /\ RestInit

\* SwiftJITREPL::initialize
Initialize ==
    /\ ~ crashed
    /\ UNCHANGED restVars
    /\ \E outcome \in InitOutcomes, t \in clock..MaxClock :
          /\ outcome \in {"ok", "noCI", "noJIT"} => epoch < MaxEpoch
          /\ LET r == initialize(Cur, outcome, t)
             IN  Commit(r.G) /\ ret' = Call("initialize", 0, r.ok)
    /\ UNCHANGED crashed

\* SwiftJITREPL::reset
Reset ==
    /\ ~ crashed
    /\ UNCHANGED restVars
    /\ \E outcome \in InitOutcomes, t \in clock..MaxClock :
          /\ outcome \in {"ok", "noCI", "noJIT"} => epoch < MaxEpoch
          /\ LET r == reset(Cur, outcome, t)
             IN  Commit(r.G) /\ ret' = Call("reset", 0, r.ok)
    /\ UNCHANGED crashed

\* SwiftJITREPL::evaluate
Evaluate ==
    /\ ~ crashed
    /\ UNCHANGED restVars
    /\ \E expression \in Snippets, env \in EvalEnvs(interpreter) :
          LET o == evaluate(Cur, expression, env)
          IN  /\ WithinBounds(o.G)
              /\ Commit(o.G)
              /\ crashed' = o.crash
              /\ ret' = IF o.crash THEN Call("crash", expression, FALSE)
                        ELSE [op |-> "evaluate", arg |-> expression,
                              res |-> o.result, steps |-> o.steps,
                              exec |-> o.exec]

\* SwiftJITREPL::evaluateMultiple
EvaluateMultiple ==
    /\ ~ crashed
    /\ UNCHANGED restVars
    /\ \E expressions \in Batches :
          /\ \E o \in evaluateMultiple(Cur, expressions) :
                /\ WithinBounds(o.G)
                /\ Commit(o.G)
                /\ crashed' = o.crash
                /\ ret' = IF o.crash THEN Call("crash", expressions, FALSE)
                          ELSE Call("evaluateMultiple", expressions, o.results)

\* SwiftJITREPL::Parse: the caller's text goes to the parser untransformed
PublicParse ==
    /\ ~ crashed
    /\ UNCHANGED restVars
    /\ interpreter.alive => Len(interpreter.modules) < MaxFragments
    /\ \E code \in Snippets, env \in EvalEnvs(interpreter) :
          IF ~ interpreter.alive
          THEN /\ ret' = Call("Parse", code, ErrNoInterp)
               /\ UNCHANGED <<initialized, lastError, stats, currentModuleName,
                              interpreter, clock, epoch, pastNames, pastDefs, crashed>>
          ELSE IF ~ interpreter.IncrParser
          THEN /\ ret' = Call("crash", code, FALSE)
               /\ crashed' = TRUE
               /\ UNCHANGED <<initialized, lastError, stats, currentModuleName,
                              interpreter, clock, epoch, pastNames, pastDefs>>
          ELSE LET p == Parse(interpreter, RawText(code), env)
               IN  /\ interpreter' = p.I
                   /\ ret' = Call("Parse", code, p.err)
                   /\ UNCHANGED <<initialized, lastError, stats, currentModuleName,
                                  clock, epoch, pastNames, pastDefs, crashed>>

\* SwiftJITREPL::Execute on a unit of the list: addModule only.  Without
\* an interpreter there is no list, and the caller hands in a unit of its own
PublicExecute ==
    /\ ~ crashed
    /\ UNCHANGED restVars
    /\ IF ~ interpreter.alive
       THEN /\ ret' = Call("Execute", 0, ErrNoInterp)
            /\ UNCHANGED <<initialized, lastError, stats, currentModuleName,
                           interpreter, clock, epoch, pastNames, pastDefs, crashed>>
       ELSE \E idx \in 1..Len(interpreter.PTUs), addFails \in BOOLEAN :
          IF ~ interpreter.IncrExecutor
          THEN /\ ret' = Call("crash", idx, FALSE)
               /\ crashed' = TRUE
               /\ UNCHANGED <<initialized, lastError, stats, currentModuleName,
                              interpreter, clock, epoch, pastNames, pastDefs>>
          ELSE LET a == addModule(interpreter, idx, [addFails |-> addFails])
               IN  /\ interpreter' = a.I
                   /\ ret' = Call("Execute", idx, a.err)
                   /\ UNCHANGED <<initialized, lastError, stats, currentModuleName,
                                  clock, epoch, pastNames, pastDefs, crashed>>

\* SwiftJITREPL::ParseAndExecute
PublicParseAndExecute ==
    /\ ~ crashed
    /\ UNCHANGED restVars
    /\ interpreter.alive => Len(interpreter.modules) < MaxFragments
    /\ \E code \in Snippets, env \in EvalEnvs(interpreter) :
          IF ~ interpreter.alive
          THEN /\ ret' = Call("ParseAndExecute", code, ErrNoInterp)
               /\ UNCHANGED <<initialized, lastError, stats, currentModuleName,
                              interpreter, clock, epoch, pastNames, pastDefs, crashed>>
          ELSE LET r == ParseAndExecute(interpreter, code, env)
               IN  /\ interpreter' = r.I
                   /\ crashed' = r.crash
                   /\ ret' = IF r.crash THEN Call("crash", code, FALSE)
                             ELSE [op |-> "ParseAndExecute", arg |-> code,
                                   res |-> r.err, steps |-> r.steps,
                                   exec |-> r.exec]
                   /\ UNCHANGED <<initialized, lastError, stats, currentModuleName,
                                  clock, epoch, pastNames, pastDefs>>

\* SwiftJITREPL::Undo
UndoN ==
    /\ ~ crashed
    /\ UNCHANGED restVars
    /\ \E N \in 0..(Len(interpreter.PTUs) + 1), failAt \in 0..Len(interpreter.PTUs) :
          /\ failAt <= N
          /\ IF ~ interpreter.alive
             THEN /\ ret' = Call("Undo", N, ErrNoInterp)
                  /\ UNCHANGED <<initialized, lastError, stats, currentModuleName,
                                 interpreter, clock, epoch, pastNames, pastDefs, crashed>>
             ELSE IF ~ interpreter.IncrParser
             THEN /\ ret' = Call("crash", N, FALSE)
                  /\ crashed' = TRUE
                  /\ UNCHANGED <<initialized, lastError, stats, currentModuleName,
                                 interpreter, clock, epoch, pastNames, pastDefs>>
             ELSE LET r == Undo(interpreter, N, failAt)
                  IN  /\ interpreter' = r.I
                      /\ ret' = [op |-> "Undo", arg |-> N, res |-> r.err,
                                 steps |-> r.steps]
                      /\ UNCHANGED <<initialized, lastError, stats, currentModuleName,
                                     clock, epoch, pastNames, pastDefs, crashed>>

\* getInterpreter()->getIncrementalExecutor()->removeModule on a unit of the
\* list
RemoveModule ==
    /\ ~ crashed
    /\ UNCHANGED restVars
    /\ interpreter.alive
    /\ interpreter.IncrExecutor
    /\ \E idx \in 1..Len(interpreter.PTUs), removeFails \in BOOLEAN :
          LET r == removeModule(interpreter, interpreter.PTUs[idx].addr,
                                [removeFails |-> removeFails])
          IN  /\ interpreter' = r.I
              /\ ret' = [op |-> "removeModule", arg |-> idx, res |-> r.err,
                         removed |-> r.removed]
              /\ UNCHANGED <<initialized, lastError, stats, currentModuleName,
                             clock, epoch, pastNames, pastDefs, crashed>>

\* getInterpreter()->getIncrementalExecutor()->execute()
ExecuteEntry ==
    /\ ~ crashed
    /\ UNCHANGED restVars
    /\ interpreter.alive
    /\ interpreter.IncrExecutor
    /\ \E ctorsFail \in BOOLEAN, found \in BOOLEAN :
          /\ found => CodeLinked(interpreter)
          /\ LET x == execute(interpreter, [ctorsFail |-> ctorsFail, found |-> found])
             IN  /\ interpreter' = x.I
                 /\ ret' = [op |-> "execute", arg |-> found, res |-> x.err,
                            looked |-> x.looked, ran |-> x.ran]
                 /\ UNCHANGED <<initialized, lastError, stats, currentModuleName,
                                clock, epoch, pastNames, pastDefs, crashed>>

\* A client of the REPL facade: initialize, reset, evaluate and
\* evaluateMultiple of SwiftJITREPL.
Next ==
    \/ Initialize
    \/ Reset
    \/ Evaluate
    \/ EvaluateMultiple

Spec == Init /\ [][Next]_vars

\* A client that, after one initialize(), drives the interpreter through the
\* lower-level interface: Parse, Execute, ParseAndExecute, Undo and the
\* executor's removeModule.
InitInterp ==
    /\ initialized = TRUE
    /\ lastError = NoError
    /\ stats = ZeroStats
    /\ currentModuleName = 0
    /\ interpreter \in {SwiftInterpreterCtor(1, built) : built \in {"ok", "noCI", "noJIT"}}
    /\ clock = 0
    /\ epoch = 1
    /\ pastNames = {}
    /\ pastDefs = {}
    /\ ret = Call("initialize", 0, TRUE)
    /\ crashed = FALSE
    /\ RestInit

NextInterp ==
    \/ PublicParse
    \/ PublicExecute
    \/ PublicParseAndExecute
    \/ UndoN
    \/ RemoveModule
    \/ ExecuteEntry

SpecInterp == InitInterp /\ [][NextInterp]_vars

\* A client of the facade that also calls Parse, Execute, ParseAndExecute
\* and Undo, but only while the REPL holds no interpreter (before the first
\* successful initialize, or after a reset that failed).
ParseNoInterp == ~ interpreter.alive /\ PublicParse
ExecuteNoInterp == ~ interpreter.alive /\ PublicExecute
ParseAndExecuteNoInterp == ~ interpreter.alive /\ PublicParseAndExecute
UndoNoInterp == ~ interpreter.alive /\ UndoN

NextNoInterp ==
    \/ Initialize
    \/ Reset
    \/ Evaluate
    \/ EvaluateMultiple
    \/ ParseNoInterp
    \/ ExecuteNoInterp
    \/ ParseAndExecuteNoInterp
    \/ UndoNoInterp

SpecNoInterp == Init /\ [][NextNoInterp]_vars

\* Impl::Impl, std::lock_guard<std::mutex> lock(initMutex): the thread blocks
\* until the mutex is free
CtorLock(t) ==
    /\ pc[t] = "idle"
    /\ constructed[t] < MaxInstances
    /\ initMutex = 0
    /\ initMutex' = t
    /\ pc' = [pc EXCEPT ![t] = "check"]
    /\ UNCHANGED <<llvmInitialized, constructed, llvmInitRuns, nativeInitRuns>>
    /\ UNCHANGED notProcessVars

\* Impl::Impl, if (!llvmInitialized)
CtorCheck(t) ==
    /\ pc[t] = "check"
    /\ pc' = [pc EXCEPT ![t] = IF llvmInitialized THEN "unlock" ELSE "init"]
    /\ UNCHANGED <<llvmInitialized, initMutex, constructed, llvmInitRuns,
                   nativeInitRuns>>
    /\ UNCHANGED notProcessVars

\* Impl::Impl, the guarded block: the five llvm::InitializeAll* calls and
\* llvmInitialized = true
CtorInitializeAll(t) ==
    /\ pc[t] = "init"
    /\ llvmInitRuns' = llvmInitRuns + 1
    /\ llvmInitialized' = TRUE
    /\ pc' = [pc EXCEPT ![t] = "unlock"]
    /\ UNCHANGED <<initMutex, constructed, nativeInitRuns>>
    /\ UNCHANGED notProcessVars

\* Impl::Impl returns: the lock_guard releases the mutex
CtorReturn(t) ==
    /\ pc[t] = "unlock"
    /\ initMutex' = 0
    /\ constructed' = [constructed EXCEPT ![t] = @ + 1]
    /\ pc' = [pc EXCEPT ![t] = "built"]
    /\ UNCHANGED <<llvmInitialized, llvmInitRuns, nativeInitRuns>>
    /\ UNCHANGED notProcessVars

\* initialize() of the REPL just built reaches SwiftInterpreter's
\* constructor: llvm::InitializeNativeTarget, ...AsmPrinter, ...AsmParser,
\* called without taking initMutex and without looking at llvmInitialized
InterpreterCtorTargets(t) ==
    /\ pc[t] = "built"
    /\ nativeInitRuns' = nativeInitRuns + 1
    /\ pc' = [pc EXCEPT ![t] = "native"]
    /\ UNCHANGED <<llvmInitialized, initMutex, constructed, llvmInitRuns>>
    /\ UNCHANGED notProcessVars

\* the rest of SwiftInterpreter's constructor; the thread is then free to
\* construct another REPL
InterpreterCtorRest(t) ==
    /\ pc[t] = "native"
    /\ pc' = [pc EXCEPT ![t] = "idle"]
    /\ UNCHANGED <<llvmInitialized, initMutex, constructed, llvmInitRuns,
                   nativeInitRuns>>
    /\ UNCHANGED notProcessVars

\* Threads that each construct REPL objects and initialize them.
NextProcess ==
    \/ \E t \in Threads : CtorLock(t)
    \/ \E t \in Threads : CtorCheck(t)
    \/ \E t \in Threads : CtorInitializeAll(t)
    \/ \E t \in Threads : CtorReturn(t)
    \/ \E t \in Threads : InterpreterCtorTargets(t)
    \/ \E t \in Threads : InterpreterCtorRest(t)

SpecProcess == Init /\ [][NextProcess]_allVars

\* SwiftJITServer::initialize: repl.initialize(); main() gives up when it
\* returns false
ServerInitialize ==
    /\ ~ crashed
    /\ mainPc = "constructed"
    /\ \E outcome \in InitOutcomes, t \in clock..MaxClock :
          LET r == initialize(Cur, outcome, t)
          IN  /\ Commit(r.G)
              /\ ret' = Call("initialize", 0, r.ok)
              /\ mainPc' = IF r.ok THEN "initialized" ELSE "exited"
    /\ UNCHANGED <<crashed, running, requestQueue, delivered, workerThreads,
                   serverStats>>
    /\ UNCHANGED notServerVars

\* SwiftJITServer::start: running = true and the worker threads are created
ServerStart ==
    /\ ~ crashed
    /\ mainPc = "initialized"
    /\ ~ running
    /\ running' = TRUE
    /\ workerThreads' = [w \in Workers |-> Idle("wait")]
    /\ mainPc' = "started"
    /\ UNCHANGED <<requestQueue, delivered, serverStats>>
    /\ UNCHANGED <<vars, notServerVars>>

\* SwiftJITServer::submitRequest, called by simulateClientRequests
SubmitRequest ==
    /\ ~ crashed
    /\ mainPc = "started"
    /\ serverStats.total_requests < MaxRequests
    /\ \E expression \in ServerExpressions :
          requestQueue' =
              Append(requestQueue,
                     EvaluationRequest(serverStats.total_requests, expression))
    /\ serverStats' = [serverStats EXCEPT !.total_requests = @ + 1]
    /\ UNCHANGED <<running, delivered, workerThreads, mainPc>>
    /\ UNCHANGED <<vars, notServerVars>>

\* SwiftJITServer::stop: running = false; the join waits for the workers
ServerStop ==
    /\ ~ crashed
    /\ mainPc = "started"
    /\ running' = FALSE
    /\ mainPc' = "stopping"
    /\ UNCHANGED <<requestQueue, delivered, workerThreads, serverStats>>
    /\ UNCHANGED <<vars, notServerVars>>

\* workerThread: the loop condition running.load() is true and the worker
\* calls requestQueue.waitAndPop
WorkerLoop(w) ==
    /\ ~ crashed
    /\ workerThreads[w].pc = "wait"
    /\ running
    /\ workerThreads' = [workerThreads EXCEPT ![w] = Idle("waitAndPop")]
    /\ UNCHANGED <<running, requestQueue, delivered, serverStats, mainPc>>
    /\ UNCHANGED <<vars, notServerVars>>

\* waitAndPop handing out the front request without taking it off the queue
WorkerPopKeepsFront(w) ==
    /\ ~ crashed
    /\ workerThreads[w].pc = "waitAndPop"
    /\ requestQueue # << >>
    /\ workerThreads' = [workerThreads EXCEPT
                            ![w] = [Idle("process") EXCEPT
                                       !.request = Head(requestQueue)]]
    /\ delivered' = Append(delivered, [request |-> Head(requestQueue), by |-> w])
    /\ UNCHANGED <<running, requestQueue, serverStats, mainPc>>
    /\ UNCHANGED <<vars, notServerVars>>

\* RequestQueue::waitAndPop returns a request: under the queue's mutex the
\* front request is copied out and popped.  It does not look at running
WorkerPop(w) ==
    /\ ~ crashed
    /\ workerThreads[w].pc = "waitAndPop"
    /\ requestQueue # << >>
    /\ workerThreads' = [workerThreads EXCEPT
                            ![w] = [Idle("process") EXCEPT
                                       !.request = Head(requestQueue)]]
    /\ requestQueue' = Tail(requestQueue)
    /\ delivered' = Append(delivered, [request |-> Head(requestQueue), by |-> w])
    /\ UNCHANGED <<running, serverStats, mainPc>>
    /\ UNCHANGED <<vars, notServerVars>>

\* RequestQueue::waitAndPop times out on an empty queue and returns false
WorkerTimeout(w) ==
    /\ ~ crashed
    /\ workerThreads[w].pc = "waitAndPop"
    /\ requestQueue = << >>
    /\ workerThreads' = [workerThreads EXCEPT ![w] = Idle("wait")]
    /\ UNCHANGED <<running, requestQueue, delivered, serverStats, mainPc>>
    /\ UNCHANGED <<vars, notServerVars>>

\* workerThread: the loop condition running.load() is false
WorkerExit(w) ==
    /\ ~ crashed
    /\ workerThreads[w].pc = "wait"
    /\ ~ running
    /\ workerThreads' = [workerThreads EXCEPT ![w] = Idle("stopped")]
    /\ UNCHANGED <<running, requestQueue, delivered, serverStats, mainPc>>
    /\ UNCHANGED <<vars, notServerVars>>

\* the workers that are inside repl.evaluate
InEvaluate == {w \in Workers : workerThreads[w].pc = "evaluate"}

\* processRequest: the worker enters repl.evaluate; no lock is taken.  A
\* worker that enters while another is inside races with it, and so does
\* the one already inside
WorkerEvaluateEnter(w) ==
    /\ ~ crashed
    /\ workerThreads[w].pc = "process"
    /\ workerThreads' =
          [v \in Workers |->
              IF v = w
              THEN [workerThreads[v] EXCEPT !.pc = "evaluate",
                                            !.raced = InEvaluate # {}]
              ELSE IF v \in InEvaluate
              THEN [workerThreads[v] EXCEPT !.raced = TRUE]
              ELSE workerThreads[v]]
    /\ UNCHANGED <<running, requestQueue, delivered, serverStats, mainPc>>
    /\ UNCHANGED <<vars, notServerVars>>

\* processRequest: repl.evaluate returns.  An evaluation that raced with
\* another has undefined behaviour: it may act as if alone, or the process
\* may die
WorkerEvaluateReturn(w) ==
    /\ ~ crashed
    /\ workerThreads[w].pc = "evaluate"
    /\ \E env \in EvalEnvs(interpreter),
          dies \in (IF workerThreads[w].raced THEN BOOLEAN ELSE {FALSE}) :
          LET expression == workerThreads[w].request.expression
              o == evaluate(Cur, expression, env)
          IN  /\ WithinBounds(o.G)
              /\ Commit(o.G)
              /\ crashed' = (o.crash \/ dies)
              /\ ret' = IF o.crash \/ dies THEN Call("crash", expression, FALSE)
                        ELSE [op |-> "evaluate", arg |-> expression,
                              res |-> o.result, steps |-> o.steps,
                              exec |-> o.exec]
              /\ workerThreads' =
                    [workerThreads EXCEPT ![w].pc = "stats",
                                          ![w].success = o.result.success]
    /\ UNCHANGED <<running, requestQueue, delivered, serverStats, mainPc>>
    /\ UNCHANGED notServerVars

\* processRequest: the statistics are updated under statsMutex, and the
\* worker goes back to waiting
WorkerUpdateStats(w) ==
    /\ ~ crashed
    /\ workerThreads[w].pc = "stats"
    /\ serverStats' =
          IF workerThreads[w].success
          THEN [serverStats EXCEPT !.successful_evaluations = @ + 1]
          ELSE [serverStats EXCEPT !.failed_evaluations = @ + 1]
    /\ workerThreads' = [workerThreads EXCEPT ![w] = Idle("wait")]
    /\ UNCHANGED <<running, requestQueue, delivered, mainPc>>
    /\ UNCHANGED <<vars, notServerVars>>

\* main() of the server example: one REPL shared by the worker threads.
NextServer ==
    \/ ServerInitialize
    \/ ServerStart
    \/ SubmitRequest
    \/ ServerStop
    \/ \E w \in Workers : WorkerLoop(w)
    \/ \E w \in Workers : WorkerPop(w)
    \/ \E w \in Workers : WorkerTimeout(w)
    \/ \E w \in Workers : WorkerExit(w)
    \/ \E w \in Workers : WorkerEvaluateEnter(w)
    \/ \E w \in Workers : WorkerEvaluateReturn(w)
    \/ \E w \in Workers : WorkerUpdateStats(w)

SpecServer == Init /\ [][NextServer]_allVars

\* SwiftInterpreter::synthesizeExpr on the text at hand: the transformer of
\* the runtime interface builder is applied to it
SynthesizeExpr ==
    /\ ~ synthesized.done
    /\ LET r == transformForValuePrintingChars(callerCode)
       IN  synthesized' = [threw |-> r.threw, text |-> r.text, done |-> TRUE]
    /\ UNCHANGED callerCode
    /\ UNCHANGED notTextVars

\* A caller that hands one text to synthesizeExpr.
InitTransform ==
    /\ ReplInit /\ ProcessInit /\ ServerInit /\ ValueInit
    /\ callerCode \in Texts
    /\ synthesized = NotTransformed

NextTransform == SynthesizeExpr

SpecTransform == InitTransform /\ [][NextTransform]_allVars

\* object o is (re)constructed as SwiftValue(val, type)
ValueConstruct(o) ==
    /\ \E st \in Stored :
          /\ values' = [values EXCEPT ![o] = SwiftValueCtor(st[1], st[2])]
          /\ lastCall' = [op |-> "construct", target |-> o, source |-> 0,
                          val |-> st[1], type |-> st[2]]
    /\ assigned' = [assigned EXCEPT ![o] = TRUE]
    /\ UNCHANGED notValueVars

\* values[o].setValue(val, type)
ValueSetValue(o) ==
    /\ \E st \in Stored :
          /\ values' = [values EXCEPT ![o] = setValue(@, st[1], st[2])]
          /\ lastCall' = [op |-> "setValue", target |-> o, source |-> 0,
                          val |-> st[1], type |-> st[2]]
    /\ assigned' = [assigned EXCEPT ![o] = TRUE]
    /\ UNCHANGED notValueVars

\* values[o].clear()
ValueClear(o) ==
    /\ values' = [values EXCEPT ![o] = clear(@)]
    /\ assigned' = [assigned EXCEPT ![o] = FALSE]
    /\ lastCall' = [op |-> "clear", target |-> o, source |-> 0,
                    val |-> "", type |-> ""]
    /\ UNCHANGED notValueVars

\* SwiftValue dst = src, or dst = src
ValueCopy(dst, src) ==
    /\ dst # src
    /\ values' = [values EXCEPT ![dst] = CopyOf(values[src])]
    /\ assigned' = [assigned EXCEPT ![dst] = assigned[src]]
    /\ lastCall' = [op |-> "copy", target |-> dst, source |-> src,
                    val |-> "", type |-> ""]
    /\ UNCHANGED notValueVars

\* SwiftValue dst = std::move(src), or dst = std::move(src)
ValueMove(dst, src) ==
    /\ dst # src
    /\ \E left \in MovedFrom(values[src]) :
          values' = [values EXCEPT ![dst] = CopyOf(values[src]), ![src] = left]
    /\ assigned' = [assigned EXCEPT ![dst] = assigned[src]]
    /\ lastCall' = [op |-> "move", target |-> dst, source |-> src,
                    val |-> "", type |-> ""]
    /\ UNCHANGED notValueVars

\* A caller working on a few SwiftValue objects.
NextValue ==
    \/ \E o \in Objects : ValueConstruct(o)
    \/ \E o \in Objects : ValueSetValue(o)
    \/ \E o \in Objects : ValueClear(o)
    \/ \E dst, src \in Objects : ValueCopy(dst, src)
    \/ \E dst, src \in Objects : ValueMove(dst, src)

SpecValue == Init /\ [][NextValue]_allVars

(***************************************************************************)
(* Properties of Undo, Parse and removeModule (checked under SpecInterp).  *)
(* A property of what a call returns is stated about the calls that        *)
(* return: ret'.op names the operation of the step, and a step that ends   *)
(* in a null dereference has ret'.op = "crash".                            *)
(***************************************************************************)
\* the units of I by identity: list node and program fragment
UnitIds(I) == [i \in 1..Len(I.PTUs) |-> <<I.PTUs[i].addr, I.PTUs[i].ModulePart>>]

IsPrefix(s, t) == Len(s) <= Len(t) /\ SubSeq(t, 1, Len(s)) = s

\* the step is a call of Undo(N) on an interpreter that has a unit list
UndoStep == ret'.op = "Undo" /\ interpreter.alive /\ interpreter.IncrParser

\* C1: Undo(N) with N greater than the number of user units returns the
\* "Too many undos" error and leaves the unit list, the resource-tracker map
\* and the bootstrap boundary (indeed the whole interpreter) as they were.
C1_UndoBound ==
    [][(UndoStep /\ ret'.arg > getEffectivePTUSize(interpreter)) =>
          /\ ret'.res = ErrTooMany
          /\ interpreter'.PTUs = interpreter.PTUs
          /\ interpreter'.ResourceTrackers = interpreter.ResourceTrackers
          /\ interpreter'.InitPTUSize = interpreter.InitPTUSize
          /\ interpreter' = interpreter]_vars

\* an Undo asking for more than the two units in the list, one of them with
\* a tracker, has been refused
C1_Witness ==
    /\ ret.op = "Undo"
    /\ ret.res = ErrTooMany
    /\ getEffectivePTUSize(interpreter) = 2
    /\ ret.arg > getEffectivePTUSize(interpreter)
    /\ \E a \in 1..MaxAddr : interpreter.ResourceTrackers[a] > NullRT

\* Undo(0) succeeds and changes nothing
UndoZero ==
    (UndoStep /\ ret'.arg = 0) => (ret'.res = OK /\ interpreter' = interpreter)

\* a step that is not an Undo keeps every unit where it is and can only
\* append at the tail
AppendOnly ==
    (ret'.op # "Undo" /\ interpreter'.session = interpreter.session) =>
        IsPrefix(UnitIds(interpreter), UnitIds(interpreter'))

\* the list never holds fewer units than the bootstrap boundary says
NotBelowBoundary == Len(interpreter'.PTUs) >= interpreter'.InitPTUSize

\* C2 (as stated): Undo(N) with N not greater than the number of user units
\* removes exactly the last N units and leaves the first (count - N) units
\* and their order unchanged; Undo(0) changes nothing; other steps only
\* append; the list never shrinks below the bootstrap boundary.
C2_Original ==
    [][/\ (UndoStep /\ ret'.arg <= getEffectivePTUSize(interpreter)) =>
             interpreter'.PTUs =
                 SubSeq(interpreter.PTUs, 1, Len(interpreter.PTUs) - ret'.arg)
       /\ UndoZero
       /\ AppendOnly
       /\ NotBelowBoundary]_vars

\* C2 (amended): an Undo(N) with N not greater than the number of user units
\* that returns success has removed exactly the last N units; one that
\* returns an error stopped at the unit whose removal failed, having removed
\* only the k < N units after it; either way the units that remain are the
\* first ones, unchanged and in order.  Undo(0) changes nothing, other steps
\* only append, and the list never shrinks below the bootstrap boundary.
C2_UndoTail ==
    [][/\ (UndoStep /\ ret'.arg <= getEffectivePTUSize(interpreter)) =>
             LET n == Len(interpreter.PTUs)
             IN  /\ ret'.res \in {OK, ErrRemove}
                 /\ ret'.res = OK =>
                      interpreter'.PTUs = SubSeq(interpreter.PTUs, 1, n - ret'.arg)
                 /\ ret'.res = ErrRemove =>
                      \E k \in 0..(ret'.arg - 1) :
                          interpreter'.PTUs = SubSeq(interpreter.PTUs, 1, n - k)
       /\ UndoZero
       /\ AppendOnly
       /\ NotBelowBoundary]_vars

\* Undo(1) on a list of two units succeeded and the older unit is what is left
C2_Witness ==
    /\ ret.op = "Undo"
    /\ ret.arg = 1
    /\ ret.res = OK
    /\ Len(interpreter.PTUs) = 1
    /\ interpreter.PTUs[1].ModulePart = 1
    /\ interpreter.undone # {}

\* names declared by the units that were in the list before the newest one
PriorUnitDefs(I) ==
    UNION {Exported(ModuleNamed(I, I.PTUs[i].ModulePart)) :
               i \in 1..(Len(I.PTUs) - 1)}

\* names declared by the units that Undo has removed
UndoneDefs(I) == UNION {Exported(ModuleNamed(I, d.name)) : d \in I.undone}

\* C3 (as stated): after Undo, the fragments of the undone units are not
\* among the fragments a later submission imports, and a submission that
\* refers to a name declared only by undone units is rejected.
C3_Original ==
    /\ \A i \in 1..Len(interpreter.modules) : \A d \in interpreter.undone :
          interpreter.modules[i].name >= d.at =>
              d.name \notin interpreter.modules[i].imports
    /\ (ret.op = "ParseAndExecute" /\ ret.res = OK /\ interpreter.IncrParser) =>
          Refs(ret.arg) \cap (UndoneDefs(interpreter) \ PriorUnitDefs(interpreter)) = {}

\* the step is a submission to the parser that returned
ParseStep ==
    /\ ret'.op \in {"Parse", "ParseAndExecute"}
    /\ interpreter.alive /\ interpreter.IncrParser

\* C4: when the parser rejects a snippet the error is returned and the unit
\* list and the user-unit count are as before the call; the list grows only
\* in a submission whose parse succeeded, and then by that one unit.
C4_RejectedNotRecorded ==
    [][/\ (ParseStep /\ ret'.res # OK) =>
             /\ ret'.res \in {ErrSema, ErrSetup}
             /\ interpreter'.PTUs = interpreter.PTUs
             /\ getEffectivePTUSize(interpreter') = getEffectivePTUSize(interpreter)
       /\ Len(interpreter'.PTUs) > Len(interpreter.PTUs) =>
             /\ ret'.op \in {"Parse", "ParseAndExecute", "crash"}
             /\ ret'.op # "crash" => ret'.res = OK
             /\ Len(interpreter'.PTUs) = Len(interpreter.PTUs) + 1
             /\ IsPrefix(UnitIds(interpreter), UnitIds(interpreter'))]_vars

\* a snippet was rejected by semantic analysis while the list held a unit:
\* there are now two more fragments than units
C4_Witness ==
    /\ ret.op \in {"Parse", "ParseAndExecute"}
    /\ ret.res = ErrSema
    /\ ret.arg = "let x = ;"
    /\ Len(interpreter.PTUs) = 1
    /\ Len(interpreter.modules) = 3

\* C10 (as stated): removeModule on a unit that has no tracker (never added,
\* or already removed) returns success, calls remove() on no tracker, and
\* leaves the resource-tracker map as it was before the call.
C10_Original ==
    [][(/\ ret'.op = "removeModule"
        /\ interpreter.ResourceTrackers[interpreter.PTUs[ret'.arg].addr]
               \in {Absent, NullRT}) =>
          /\ ret'.res = OK
          /\ ret'.removed = 0
          /\ interpreter'.ResourceTrackers = interpreter.ResourceTrackers]_vars

(***************************************************************************)
(* Properties of the facade: evaluate, evaluateMultiple and reset (checked *)
(* under Spec).                                                            *)
(***************************************************************************)
\* the step is a call of evaluate that reached the parser and returned
EvaluateStep ==
    /\ ret'.op = "evaluate"
    /\ initialized /\ interpreter.alive /\ interpreter.IncrParser

\* the snippet parses, and every name it refers to is declared by a unit of
\* the list
ValidOnItsOwn(I, code) == WellFormed(code) /\ Refs(code) \subseteq UnitDefs(I)

\* the call was answered "Semantic analysis failed"
RejectedBySema ==
    ~ ret'.res.success /\ lastError' = Msg(ErrFailedExec, ErrSema)

\* C5 (as stated): a rejected submission is not fatal to the session: a
\* later submission that parses and type-checks against the accepted units
\* is not rejected by the parser.
C5_Original ==
    [][(EvaluateStep /\ ValidOnItsOwn(interpreter, ret'.arg)) =>
          ~ RejectedBySema]_vars

\* every fragment imports the fragment of every unit of the list that was
\* accepted before it
ImportVisible(I) ==
    \A i \in 1..Len(I.PTUs) : \A j \in 1..Len(I.modules) :
        I.modules[j].name > I.PTUs[i].ModulePart =>
            I.PTUs[i].ModulePart \in I.modules[j].imports

\* C6 (as stated): every accepted unit still in the list is import-visible
\* to every later submission, so an expression that refers to declarations
\* of accepted units is accepted.
C6_Original ==
    [][/\ ImportVisible(interpreter')
       /\ (/\ EvaluateStep
           /\ Refs(ret'.arg) # {}
           /\ ValidOnItsOwn(interpreter, ret'.arg)) =>
             ~ (lastError' = Msg(ErrFailedExec, ErrSema) /\ ~ ret'.res.success)]_vars

\* names declared by the texts submitted to interpreter I
SubmittedDefs(I) == UNION {Defs(I.modules[i].text.src) : i \in 1..Len(I.modules)}

\* C7: after reset() returns true the unit list holds no unit from before
\* the reset and the user-unit count is 0; no unit or fragment of an earlier
\* interpreter is ever in the current one; and an accepted submission refers
\* to no name that was declared only before the reset.
C7_ResetClears ==
    [][/\ (ret'.op = "reset" /\ ret'.res = TRUE) =>
             /\ interpreter'.alive
             /\ interpreter'.session # interpreter.session
             /\ interpreter'.PTUs = << >>
             /\ getEffectivePTUSize(interpreter') = 0
             /\ Visible(interpreter'.modules) = {}
       /\ \A i \in 1..Len(interpreter'.PTUs) :
             interpreter'.PTUs[i].ctx = interpreter'.session
       /\ \A i \in 1..Len(interpreter'.modules) :
             interpreter'.modules[i].ctx = interpreter'.session
       /\ (EvaluateStep /\ ret'.res.success) =>
             Refs(ret'.arg) \cap (pastDefs \ SubmittedDefs(interpreter)) = {}]_vars

\* the first submission after a reset refers to a name that a unit declared
\* before the reset, and is rejected
C7_Witness ==
    /\ ret.op = "evaluate"
    /\ ~ ret.res.success
    /\ lastError = Msg(ErrFailedExec, ErrSema)
    /\ Refs(ret.arg) \cap pastDefs # {}
    /\ epoch = 2
    /\ Len(interpreter.modules) = 2
    /\ interpreter.PTUs = << >>

\* C8 (as stated): no two units ever share a fragment name, whether they
\* are units of the same interpreter or one of them was created before a
\* reset() and the other after it.
C8_Original ==
    /\ \A i, j \in 1..Len(interpreter.PTUs) :
          i # j => interpreter.PTUs[i].ModulePart # interpreter.PTUs[j].ModulePart
    /\ \A i \in 1..Len(interpreter.PTUs) :
          interpreter.PTUs[i].ModulePart \notin pastNames

\* positions of results that are not the placeholder
Evaluated(rs) == {i \in 1..Len(rs) : rs[i] # Failure(ErrStopped, "")}

\* C9: an evaluateMultiple that returns gives one result per expression;
\* before initialization each is the "REPL not initialized" failure and
\* nothing changes; otherwise the expressions are evaluated in order up to
\* and including the first that fails, every later result is the "Stopped
\* due to previous failure" placeholder, and the parser and the statistics
\* have seen only the expressions that were evaluated.
C9_BatchShortCircuit ==
    [][ret'.op = "evaluateMultiple" =>
          LET exprs == ret'.arg
              rs == ret'.res
              k == Cardinality(Evaluated(rs))
              parsed == Len(interpreter'.modules) - Len(interpreter.modules)
          IN  /\ Len(rs) = Len(exprs)
              /\ ~ initialized =>
                    /\ \A i \in 1..Len(rs) : rs[i] = Failure(ErrNotInit, "")
                    /\ interpreter' = interpreter
                    /\ stats' = stats
              /\ initialized =>
                    /\ Evaluated(rs) = 1..k
                    /\ \A i \in 1..(k - 1) : rs[i].success
                    /\ k < Len(rs) => ~ rs[k].success
                    /\ stats'.total_expressions = stats.total_expressions + k
                    /\ parsed \in {k - 1, k} \cap Nat
                    /\ interpreter'.InputCount = interpreter.InputCount + parsed
                    /\ \A j \in 1..parsed :
                          interpreter'.modules[Len(interpreter.modules) + j].text
                              = transformForValuePrinting(exprs[j])]_vars

\* a batch of two whose first expression failed: the second result is the
\* placeholder and only one expression was counted
C9_Witness ==
    /\ ret.op = "evaluateMultiple"
    /\ Len(ret.res) = 2
    /\ ~ ret.res[1].success
    /\ ret.res[1] # Failure(ErrStopped, "")
    /\ ret.res[2] = Failure(ErrStopped, "")
    /\ stats.total_expressions = 1
    /\ Len(interpreter.modules) = 2

(***************************************************************************)
(* Properties of the executor: ownership of compiled modules, addModule,   *)
(* execute and the initialization of the dylib.                            *)
(***************************************************************************)
\* the trackers of the session that hold the code of fragment n
HoldersOf(I, n) == {t \in I.live : t.unit = n /\ t.code}

\* the execution session holds the compiled module of fragment n
SessionHolds(I, n) == n \in I.orphaned \/ HoldersOf(I, n) # {}

\* C11: once addModule has handed a unit's module to the linker the unit no
\* longer holds it; at every point a compiled module is held by the unit or
\* by the session, never by both and never by two trackers, so that cleaning
\* up or undoing the unit cannot free what the session frees.
C11_SingleOwner ==
    [][/\ \A i \in 1..Len(interpreter'.PTUs) :
             LET u == interpreter'.PTUs[i]
             IN  /\ ~ (u.TheModule /\ SessionHolds(interpreter', u.ModulePart))
                 /\ Cardinality(HoldersOf(interpreter', u.ModulePart)) <= 1
                 /\ ~ (u.ModulePart \in interpreter'.orphaned
                        /\ HoldersOf(interpreter', u.ModulePart) # {})
       /\ (ret'.op = "Execute" /\ interpreter.alive) =>
             ~ interpreter'.PTUs[ret'.arg].TheModule
       /\ (ret'.op = "ParseAndExecute" /\ interpreter.alive /\ ret'.res = OK) =>
             ~ interpreter'.PTUs[Len(interpreter'.PTUs)].TheModule]_vars

\* addModule has moved the module of a unit into the session: the session
\* holds it under one tracker and the unit holds nothing
C11_Witness ==
    /\ ret.op = "Execute"
    /\ ret.res = OK
    /\ ~ interpreter.PTUs[ret.arg].TheModule
    /\ Cardinality(HoldersOf(interpreter, interpreter.PTUs[ret.arg].ModulePart)) = 1

\* C12 (as stated): addModule on a unit that holds no compiled module
\* returns success, creates no tracker and leaves the resource-tracker map
\* unchanged; a tracker exists only where a module was added under it.
C12_Original ==
    [][/\ (/\ ret'.op = "Execute"
           /\ interpreter.alive
           /\ ~ interpreter.PTUs[ret'.arg].TheModule) =>
             /\ ret'.res = OK
             /\ interpreter'.ResourceTrackers = interpreter.ResourceTrackers
             /\ interpreter'.live = interpreter.live
       /\ \A t \in interpreter'.live : t.code]_vars

(***************************************************************************)
(* Properties of the facade: failures, initialization and statistics.      *)
(***************************************************************************)
\* C13 (as stated): when addModule or the execution step fails for a
\* submission, the failure reaches the caller: evaluate returns
\* success = false and counts the submission as a failed compilation.
C13_Original ==
    [][(ret'.op = "evaluate" /\ ret'.exec # OK) =>
          /\ ~ ret'.res.success
          /\ stats'.failed_compilations = stats.failed_compilations + 1
          /\ stats'.successful_compilations = stats.successful_compilations]_vars

\* the step constructed an interpreter that lacks its parser or its executor
HalfBuilt ==
    /\ epoch' # epoch
    /\ ~ (interpreter'.IncrParser /\ interpreter'.IncrExecutor)

\* C14 (as stated): when the construction of the interpreter fails,
\* initialize() (and reset()) returns false and isInitialized() stays false,
\* so that a later evaluate is answered "REPL not initialized".
C14_Original ==
    [][(ret'.op \in {"initialize", "reset"} /\ HalfBuilt) =>
          (ret'.res = FALSE /\ ~ initialized')]_vars

\* C15 (as stated): in every reachable state evaluate returns a structured
\* result; no state makes it crash.
C15_Original == ~ crashed /\ ret.op # "crash"

\* C16: the not-initialized answers are local checks.  evaluate and
\* evaluateMultiple on a REPL that is not initialized return the "REPL not
\* initialized" failure, and Parse, Execute, ParseAndExecute and Undo on a
\* REPL without interpreter return "Interpreter not initialized"; none of
\* them reaches the parser or the executor, changes the interpreter or the
\* statistics, or crashes.  A REPL that is not initialized has no interpreter.
C16_LocalPrecondition ==
    [][/\ (ret'.op = "evaluate" /\ ~ initialized) =>
             /\ ret'.res = Failure(ErrNotInit, "")
             /\ ret'.steps = << >>
             /\ interpreter' = interpreter /\ stats' = stats
       /\ (ret'.op = "evaluateMultiple" /\ ~ initialized) =>
             /\ \A i \in 1..Len(ret'.res) : ret'.res[i] = Failure(ErrNotInit, "")
             /\ interpreter' = interpreter /\ stats' = stats
       /\ (/\ ret'.op \in {"Parse", "Execute", "ParseAndExecute", "Undo"}
           /\ ~ interpreter.alive) =>
             /\ ret'.res = ErrNoInterp
             /\ interpreter' = interpreter /\ stats' = stats
       /\ (~ initialized \/ ~ interpreter.alive) =>
             (ret'.op # "crash" /\ ~ crashed')
       /\ ~ initialized' => ~ interpreter'.alive]_vars

\* after a session with an accepted unit and a reset that failed, a
\* ParseAndExecute was refused because there is no interpreter
C16_Witness ==
    /\ ret.op = "ParseAndExecute"
    /\ ret.res = ErrNoInterp
    /\ ~ initialized
    /\ pastNames # {}

\* C17: when execute looks up the entry symbol and does not find it, it
\* returns success and calls nothing; the only error execute returns is the
\* failure of the one-time initialization, which happens before any lookup,
\* and the entry function is called only when the lookup found it.
C17_MissingEntryIsSuccess ==
    [][ret'.op = "execute" =>
          /\ (ret'.looked /\ ~ ret'.arg) => (ret'.res = OK /\ ~ ret'.ran)
          /\ ret'.res # OK => (ret'.res = ErrCtors /\ ~ ret'.looked)
          /\ ret'.ran => (ret'.looked /\ ret'.arg)
          /\ interpreter'.PTUs = interpreter.PTUs
          /\ interpreter'.ResourceTrackers = interpreter.ResourceTrackers]_vars

\* execute looked the entry symbol up with units linked, did not find it
\* and returned success
C17_Witness ==
    /\ ret.op = "execute"
    /\ ret.looked /\ ~ ret.arg /\ ~ ret.ran
    /\ ret.res = OK
    /\ interpreter.live # {}

\* C18: within one execution session the one-time initialization of the JIT
\* dylib (Jit->initialize) is performed at most once, whatever sequence of
\* ParseAndExecute, Execute and execute calls is made.
C18_Original == interpreter.initRuns <= 1

\* C19: ParseAndExecute runs transform, parse, addModule, execute in this
\* order: a call that added its unit successfully went on to execute, which
\* looks up the entry symbol.
C19_Original ==
    [][(/\ ret'.op = "ParseAndExecute"
        /\ Len(ret'.steps) > 2
        /\ \E t \in interpreter'.live : t \notin interpreter.live) =>
          ret'.steps = <<"transform", "parse", "addModule", "execute">>]_vars

\* C20: the statistics always satisfy total_expressions =
\* successful_compilations + failed_compilations, and every evaluate that
\* returns on an initialized REPL raises total_expressions by exactly one
\* and exactly one of the two other counters by one: the successful one when
\* the result says success, the failed one otherwise.
C20_StatsAddUp ==
    /\ [](stats.total_expressions =
            stats.successful_compilations + stats.failed_compilations)
    /\ [][(ret'.op = "evaluate" /\ initialized) =>
            /\ stats'.total_expressions = stats.total_expressions + 1
            /\ IF ret'.res.success
               THEN /\ stats'.successful_compilations =
                          stats.successful_compilations + 1
                    /\ stats'.failed_compilations = stats.failed_compilations
               ELSE /\ stats'.failed_compilations =
                          stats.failed_compilations + 1
                    /\ stats'.successful_compilations =
                          stats.successful_compilations]_vars

\* three evaluations, two successful and then one that failed: 3 / 2 / 1
C20_Witness ==
    /\ ret.op = "evaluate" /\ ~ ret.res.success
    /\ stats.total_expressions = 3
    /\ stats.successful_compilations = 2
    /\ stats.failed_compilations = 1

\* C21: the initialization of the codegen/target subsystem is performed at
\* most once per process, however many REPL objects are constructed and
\* initialized and from whichever threads.
C21_Original == llvmInitRuns + nativeInitRuns <= 1

\* C22: in the multi-worker server no two worker threads are ever inside
\* repl.evaluate of the shared REPL at the same time.
C22_Original == Cardinality(InEvaluate) <= 1

\* C23: a snippet classified as a declaration or statement passes through
\* the Value Capture Transform unchanged: the text synthesizeExpr returns,
\* which is handed to parse, equals the caller's text.
C23_Original ==
    (synthesized.done /\ ~ synthesized.threw /\ ~ isExpression(callerCode))
        => synthesized.text = callerCode

\* C24: a snippet classified as an expression is rewritten to pass its
\* value to the runtime capture callback.
C24_Original ==
    (synthesized.done /\ ~ synthesized.threw /\ isExpression(callerCode))
        => Contains(synthesized.text, SetValueNoAlloc)

\* C25: the boundary between bootstrap and user units is fixed at
\* construction: InitPTUSize never changes afterwards, the unit list never
\* holds fewer than InitPTUSize units, and right after a successful
\* initialize the effective (user) unit count is 0.
C25_BoundaryFixed ==
    /\ [](interpreter.IncrParser =>
            Len(interpreter.PTUs) >= interpreter.InitPTUSize)
    /\ []((ret.op = "initialize" /\ ret.res = TRUE /\ interpreter.IncrParser) =>
            getEffectivePTUSize(interpreter) = 0)
    /\ [][interpreter'.InitPTUSize = interpreter.InitPTUSize]_vars

\* units were submitted and an Undo took the list back to the boundary
C25_Witness ==
    /\ ret.op = "Undo" /\ ret.res = OK /\ ret.arg >= 1
    /\ interpreter.InputCount >= 2
    /\ getEffectivePTUSize(interpreter) = 0
    /\ Len(interpreter.PTUs) = interpreter.InitPTUSize

\* positions in the unit list of the units whose code the given trackers
\* linked into the session
LinkedPositions(I, trackers) ==
    {i \in 1..Len(I.PTUs) :
        \E t \in trackers : t.code /\ t.unit = I.PTUs[i].ModulePart}

\* C26: units are added to the execution session in submission order: when
\* a Parse, Execute or ParseAndExecute call adds a unit to the session, no
\* unit submitted after it has been added already.
C26_Original ==
    [][ret'.op \in {"Parse", "Execute", "ParseAndExecute"} =>
          \A i \in LinkedPositions(interpreter', interpreter'.live \ interpreter.live) :
             \A j \in LinkedPositions(interpreter', interpreter.live) : j <= i]_vars

\* C27: a SwiftValue that has been moved from is invalid afterwards, while
\* the destination is valid and carries the value and type of the source.
C27_Original ==
    [][(lastCall'.op = "move" /\ isValid(values[lastCall'.source])) =>
          /\ ~ isValid(values'[lastCall'.source])
          /\ values'[lastCall'.target] = values[lastCall'.source]]_valueVars

\* every object other than o is as it was
OthersKept(o) == \A x \in Objects \ {o} : values'[x] = values[x]

\* C28: isValid() is true exactly when the object was given a value (by its
\* constructor or by setValue) and has not been cleared since; a cleared
\* object has empty value and type; setValue stores its arguments; a copy
\* has the validity, value and type of its source and leaves the source
\* unchanged; no call touches another object.
C28_ValidIffAssigned ==
    /\ [](\A o \in Objects :
            /\ isValid(values[o]) = assigned[o]
            /\ ~ isValid(values[o]) => (values[o].Value = "" /\ values[o].Type = ""))
    /\ [][/\ lastCall'.op \in {"construct", "setValue"} =>
                /\ values'[lastCall'.target] =
                      [Value |-> lastCall'.val, Type |-> lastCall'.type,
                       Valid |-> TRUE]
                /\ OthersKept(lastCall'.target)
          /\ lastCall'.op = "clear" =>
                /\ values'[lastCall'.target] = SwiftValueDefault
                /\ OthersKept(lastCall'.target)
          /\ lastCall'.op = "copy" =>
                /\ values'[lastCall'.target] = values[lastCall'.source]
                /\ OthersKept(lastCall'.target)]_valueVars

\* an object was set, copied, and then cleared; the copy is still valid
C28_Witness ==
    /\ lastCall.op = "clear"
    /\ ~ isValid(values[lastCall.target])
    /\ \E o \in Objects : isValid(values[o]) /\ values[o].Value = "42"

\* positions of the list on which an Undo made the given call
CalledOn(s, call) == {s[i].at : i \in {k \in 1..Len(s) : s[k].call = call}}

\* C29: Undo(N) processes the units newest first, and for each unit it
\* calls removeModule (which drops the unit's handle from the tracker map)
\* before CleanUpPTU and that before pop_back; a unit is never touched
\* after an older one, and a failed removeModule ends the loop with the
\* unit still in the list.
C29_NewestFirstRemoveFirst ==
    [][(UndoStep /\ ret'.res # ErrTooMany) =>
          LET s == ret'.steps
              n == Len(interpreter.PTUs)
              popped == n - Len(interpreter'.PTUs)
              tried == IF ret'.res = OK THEN popped ELSE popped + 1
          IN  /\ \A i \in 1..Len(s) :
                    s[i].call = "pop_back" =>
                       /\ i >= 2
                       /\ s[i - 1] = [call |-> "CleanUpPTU", at |-> s[i].at]
                       /\ interpreter.IncrExecutor =>
                             /\ i >= 3
                             /\ s[i - 2] = [call |-> "removeModule", at |-> s[i].at]
              /\ \A i \in 1..Len(s) :
                    s[i].call = "CleanUpPTU" =>
                       (i < Len(s) /\ s[i + 1].call = "pop_back")
              /\ \A i, j \in 1..Len(s) : i < j => s[i].at >= s[j].at
              /\ CalledOn(s, "pop_back") = (n - popped + 1)..n
              /\ interpreter.IncrExecutor =>
                    /\ CalledOn(s, "removeModule") = (n - tried + 1)..n
                    /\ \A at \in CalledOn(s, "removeModule") :
                          interpreter'.ResourceTrackers[interpreter.PTUs[at].addr]
                             \in {Absent, NullRT}
              /\ ret'.res = OK => popped = ret'.arg]_vars

\* an Undo(2) with an executor succeeded: six calls, two of them removeModule
C29_Witness ==
    /\ ret.op = "Undo" /\ ret.arg = 2 /\ ret.res = OK
    /\ Len(ret.steps) = 6
    /\ ret.steps[1] = [call |-> "removeModule", at |-> 2]
    /\ ret.steps[4] = [call |-> "removeModule", at |-> 1]

\* C30: within one interpreter session no two fragments are created with
\* the same name: the number the name is derived from (modules->size())
\* never decreases, and every submission, accepted or rejected, before or
\* after an undo, creates its fragment under a number no fragment of the
\* session has had.
C30_UniqueFragmentNames ==
    /\ [](\A i, j \in 1..Len(interpreter.modules) :
            i # j => interpreter.modules[i].name # interpreter.modules[j].name)
    /\ [][/\ Len(interpreter'.modules) >= Len(interpreter.modules)
          /\ IsPrefix(interpreter.modules, interpreter'.modules)
          /\ \A k \in (Len(interpreter.modules) + 1)..Len(interpreter'.modules) :
                /\ interpreter'.modules[k].name = k - 1
                /\ interpreter'.modules[k].name \notin ModuleNames(interpreter.modules)
                /\ \A u \in interpreter.undone :
                      interpreter'.modules[k].name # u.name]_vars

\* a unit was undone and the next accepted submission got a name of its own
C30_Witness ==
    /\ ret.op \in {"Parse", "ParseAndExecute"} /\ ret.res = OK
    /\ interpreter.undone # {}
    /\ Len(interpreter.PTUs) = 1
    /\ interpreter.PTUs[1].ModulePart = 2

\* names of the fragments whose submission was accepted: the fragments of
\* the units in the list and of the units Undo has removed
AcceptedNames(I) ==
    {I.PTUs[i].ModulePart : i \in 1..Len(I.PTUs)} \cup {u.name : u \in I.undone}

\* C31 (as stated): the import list of every submission holds, besides the
\* base fragment of the session, only fragments of accepted units; the
\* fragment of a submission that parse or semantic analysis rejected is
\* imported by no later submission.
C31_Original ==
    \A j \in 1..Len(interpreter.modules) :
        interpreter.modules[j].imports \subseteq
            {BaseModule(interpreter.session).name} \cup AcceptedNames(interpreter)

\* C32 (as stated): a unit has at most one handle at any time, and once
\* removeModule has succeeded on a unit nothing that addModule linked for
\* that unit is linked any more: no live handle belongs to the unit and none
\* of its code is left with the default handle of the library.
C32_Original ==
    /\ [](\A t1, t2 \in interpreter.live : t1.unit = t2.unit => t1 = t2)
    /\ [][(ret'.op = "removeModule" /\ ret'.res = OK) =>
            LET unit == interpreter.PTUs[ret'.arg].ModulePart
            IN  /\ \A t \in interpreter'.live : t.unit # unit
                /\ unit \notin interpreter'.orphaned]_vars

\* keys of the resource-tracker map
TrackerKeys(I) == {a \in 1..MaxAddr : I.ResourceTrackers[a] # Absent}

\* C33 (as stated): every key of the resource-tracker map is a unit that is
\* in the list; no entry stays keyed by a unit Undo has removed.
C33_Original ==
    interpreter.alive => TrackerKeys(interpreter) \subseteq LiveAddrs(interpreter)

\* C34 (as stated): when Undo returns the error of a removeModule that
\* failed part-way, every unit still in the list that had a tracker before
\* the call still has that tracker.
C34_Original ==
    [][(ret'.op = "Undo" /\ ret'.res = ErrRemove) =>
          \A i \in 1..Len(interpreter'.PTUs) :
              LET a == interpreter'.PTUs[i].addr
              IN  interpreter.ResourceTrackers[a] > NullRT =>
                      interpreter'.ResourceTrackers[a] = interpreter.ResourceTrackers[a]]_vars

\* C35 (as stated): the transform returns normally for every text; the
\* look-behind for `public` reads only positions inside the string and
\* nothing is thrown, also when `let ` or `var ` starts at position 1 to 5.
C35_Original ==
    synthesized.done => ~ synthesized.threw

\* C36 (as stated): `public` is added at most once per declaration: a
\* `let ` that already follows `public ` is left as it is, and the
\* transform applied to its own output only appends one more newline.
C36_Original ==
    (synthesized.done /\ ~ synthesized.threw) =>
        /\ callerCode = PublicLet => synthesized.text = PublicLet \o Newline
        /\ transformForValuePrintingChars(synthesized.text) =
               [threw |-> FALSE, text |-> synthesized.text \o Newline]

\* C37 (as stated): whenever evaluate returns a failed result, lastError
\* holds a non-empty message right afterwards, and after the
\* not-initialized failure that message is the not-initialized one.
C37_Original ==
    [][(ret'.op = "evaluate" /\ ~ ret'.res.success) =>
          /\ lastError' # NoError
          /\ ret'.res.error_message.prefix = ErrNotInit =>
                 lastError'.prefix = ErrNotInit]_vars

\* the requests pushed so far, in the order the queue accounts for them:
\* those already returned by waitAndPop, then those still queued
Accounted == [k \in 1..Len(delivered) |-> delivered[k].request] \o requestQueue

\* C38: the queue hands every pushed request to one worker only, in the
\* order of the pushes, and loses none: the requests returned so far
\* followed by the requests still queued are exactly the requests pushed,
\* req_0, req_1, ... in that order, a push only adds its request at the end
\* and a pop only moves the front request to the worker that popped; a
\* worker that processes a request is the one it was returned to.
C38_QueueDeliversOnceInOrder ==
    /\ [](/\ Len(Accounted) = serverStats.total_requests
          /\ \A k \in 1..Len(Accounted) : Accounted[k].id = k - 1
          /\ \A w \in Workers :
                workerThreads[w].request # NoRequest =>
                    /\ \E k \in 1..Len(delivered) :
                          delivered[k] = [request |-> workerThreads[w].request,
                                          by |-> w]
                    /\ \A v \in Workers \ {w} :
                          workerThreads[v].request # workerThreads[w].request)
    /\ [][\/ Accounted' = Accounted
          \/ /\ \E r \in {EvaluationRequest(Len(Accounted), e) : e \in ServerExpressions} :
                   Accounted' = Append(Accounted, r)
             /\ delivered' = delivered]_allVars

\* two requests were pushed and waitAndPop returned them to two different
\* workers, the second while the first was still being processed
C38_Witness ==
    /\ Len(delivered) = 2
    /\ requestQueue = << >>
    /\ delivered[1].by # delivered[2].by
    /\ workerThreads[delivered[1].by].request = delivered[1].request
    /\ workerThreads[delivered[2].by].request = delivered[2].request

====
